---- MODULE Spec2Model ----
(***************************************************************************)
(* TSKMNGR overflow archiving: the tasks / archived_tasks tables, the      *)
(* ArchiveManager engine (archiving.py), the Database repository           *)
(* (database.py) and the tool handlers of mcp_server/tsk_mcp_server.py     *)
(* that compose them.                                                      *)
(***************************************************************************)
EXTENDS Integers, FiniteSets, Sequences, TLC

\* ---------------------------------------------------------------- bounds
MaxNewTasks == 2      \* task rows inserted on top of the seeded ones
MaxClock == 2         \* the clock runs 0..MaxClock
TicksPerDay == 2      \* clock ticks that share one calendar date
MaxBulk == 2          \* length of a bulk_complete_tasks request
MaxAdditional == 1    \* required_additional ranges over -1..MaxAdditional
MaxNewBoards == 4     \* boards created on top of the users' default boards
MaxRequests == 3      \* requests served in one run of two users
MaxIdx == 1           \* task_idx ranges over 0..MaxIdx
MaxLimit == 2         \* limit of a listing ranges over 0..MaxLimit
MaxOffset == 1        \* offset of a listing ranges over -1..MaxOffset

ACTIVE_CAP == 10      \* hard-coded active-task cap
BOARD_CAP == 4        \* hard-coded cap on the boards of one user

NULL == -1            \* SQL NULL of a date column (dates are >= 0)

Users == {1, 2}
BoardIds == {"b1", "b2"}

\* (ENABLE_ARCHIVE_ON_COMPLETE, MAX_TASKS_PER_BOARD, active and completed task
\* rows board b1 holds at start-up)
Configs ==
    { <<TRUE, 1, 0, 1>>, <<FALSE, 1, 0, 1>>, <<TRUE, 10, 10, 1>>, <<TRUE, 11, 10, 2>> }

Payloads ==
    { [task |-> "b", due_date |-> 2, notes |-> "n"] }

VARIABLES
    ENABLE_ARCHIVE_ON_COMPLETE, \* class attribute, read from the environment
    MAX_TASKS_PER_BOARD,        \* class attribute, read from the environment
    seed,                       \* number of task rows present at start-up
    boards,                     \* committed table boards
    tasks,                      \* committed table tasks
    archived_tasks,             \* committed table archived_tasks
    task_seq,                   \* SERIAL sequence of tasks.id
    archive_seq,                \* SERIAL sequence of archived_tasks.id
    used_task_ids,              \* every id a tasks row ever carried
    evicted,                    \* per archive row: the task row it was made from
    now,                        \* clock (datetime.now / CURRENT_TIMESTAMP)
    conn,                       \* the caller-owned open transaction
    pc,                         \* position of the request in progress
    last,                       \* the last call: arguments, result, tables before
    board_seq,                  \* number of board ids uuid4 has handed out
    requests,                   \* number of requests served so far
    sessions                    \* the worker threads' transactions in progress

vars == << ENABLE_ARCHIVE_ON_COMPLETE, MAX_TASKS_PER_BOARD, seed, boards, tasks,
           archived_tasks, task_seq, archive_seq, used_task_ids, evicted, now,
           conn, pc, last, board_seq, requests, sessions >>

\* the state only the board handlers and the worker threads touch
others == << board_seq, sessions >>

config == << ENABLE_ARCHIVE_ON_COMPLETE, MAX_TASKS_PER_BOARD, seed >>

\* ------------------------------------------------------------- helpers
Max(a, b) == IF a >= b THEN a ELSE b
Min(a, b) == IF a <= b THEN a ELSE b

\* strftime("%Y-%m-%d") of a timestamp: the calendar date it falls on
DateOf(ts) == ts \div TicksPerDay

\* a task row present at start-up: added at time 0, completed the same day
SeedTask(i, board_id, position, is_completed) ==
    [id |-> i, board_id |-> board_id, task |-> "a", due_date |-> 1, notes |-> "",
     is_completed |-> is_completed,
     completed_on |-> IF is_completed THEN DateOf(0) ELSE NULL,
     position |-> position, created_at |-> 0]

\* the tasks table at start-up: n_active + n_completed rows on b1, and one
\* active row on b2
SeedTasks(n_active, n_completed) ==
    LET n == n_active + n_completed
    IN { SeedTask(i, "b1", i, i > n_active) : i \in 1..n } \cup
       { SeedTask(n + 1, "b2", 1, FALSE) }

BoardTasks(T, b) == {t \in T : t.board_id = b}
ActiveTasks(T, b) == {t \in T : t.board_id = b /\ ~t.is_completed}
CompletedTasks(T, b) == {t \in T : t.board_id = b /\ t.is_completed}

\* SELECT ... FROM boards WHERE id = b AND user_id = u
OwnedBoard(B, b, u) == {r \in B : r.id = b /\ r.user_id = u}

\* COALESCE(MAX(position), 0) over a set of rows
MaxPosition(S) ==
    IF S = {} THEN 0 ELSE CHOOSE p \in {t.position : t \in S} :
                               \A t \in S : t.position <= p

NoConn == [open |-> FALSE, tasks |-> {}, archived_tasks |-> {}, archive_seq |-> 0]

NoFail == [j |-> 0, step |-> "none"]

\* the record of a call: arguments, result (ret, or err when it raised), the
\* candidate rows the engine selected, the storage failure injected, whether
\* the enclosing transaction was committed, the committed tables before the
\* call (pre_*) and the tables the engine saw when it was called (call_*)
NoCall ==
    [op |-> "none", user_id |-> 0, board_id |-> "", ids |-> << >>,
     additional |-> 0, archived_task_id |-> 0, with_conn |-> FALSE,
     ret |-> 0, err |-> "", completed |-> 0, skipped |-> << >>,
     rows |-> << >>, fail |-> NoFail, outcome |-> "",
     pre_tasks |-> {}, pre_archived |-> {}, pre_used |-> {}, pre_boards |-> {},
     call_tasks |-> {}, call_archived |-> {}, origin |-> {},
     task_id |-> 0, listed |-> << >>, matched |-> << >>,
     limit |-> 0, offset |-> 0, is_completed |-> FALSE]

\* --------------------------------------------------- archiving.py: engine

\* mutant: created_at DESC in the ORDER BY
SortsBefore_CreatedDesc(s, t) ==
    \/ s.completed_on = NULL /\ t.completed_on # NULL
    \/ /\ s.completed_on # NULL /\ t.completed_on # NULL
       /\ s.completed_on < t.completed_on
    \/ s.completed_on = t.completed_on /\ s.created_at > t.created_at

\* ORDER BY completed_on NULLS FIRST, created_at ASC: s sorts strictly before t
SortsBefore(s, t) ==
    \/ s.completed_on = NULL /\ t.completed_on # NULL
    \/ /\ s.completed_on # NULL /\ t.completed_on # NULL
       /\ s.completed_on < t.completed_on
    \/ s.completed_on = t.completed_on /\ s.created_at < t.created_at

\* mutant: the SELECT without its LIMIT
SelectOldestCompleted_NoLimit(T, b, limit) ==
    LET C == CompletedTasks(T, b)
        k == Cardinality(C)
    IN { rows \in [1..k -> C] :
           \A i, j \in 1..k :
              i < j => rows[i] # rows[j] /\ ~SortsBefore(rows[j], rows[i]) }

\* mutant: the SELECT without is_completed = TRUE
SelectOldestCompleted_AnyTask(T, b, limit) ==
    LET C == BoardTasks(T, b)
        k == Min(limit, Cardinality(C))
    IN { rows \in [1..k -> C] :
           /\ \A i, j \in 1..k :
                 i < j => rows[i] # rows[j] /\ ~SortsBefore(rows[j], rows[i])
           /\ \A i \in 1..k : \A s \in C :
                 (\A j \in 1..k : rows[j] # s) => ~SortsBefore(s, rows[i]) }

\* the result lists the SELECT ... LIMIT of _archive_oldest_completed can
\* return: rows that tie under the ORDER BY come in any order
SelectOldestCompleted(T, b, limit) ==
    LET C == CompletedTasks(T, b)
        k == Min(limit, Cardinality(C))
    IN { rows \in [1..k -> C] :
           /\ \A i, j \in 1..k :
                 i < j => rows[i] # rows[j] /\ ~SortsBefore(rows[j], rows[i])
           /\ \A i \in 1..k : \A s \in C :
                 (\A j \in 1..k : rows[j] # s) => ~SortsBefore(s, rows[i]) }

\* mutant: the INSERT leaves the task text out
ArchiveRow_BlankTask(aid, user_id, board_id, board_name, t, ts) ==
    [id |-> aid, user_id |-> user_id, original_task_id |-> t.id,
     board_id |-> board_id, board_name_at_archive |-> board_name,
     task |-> "", due_date |-> t.due_date, notes |-> t.notes,
     completed_on |-> t.completed_on, archived_on |-> ts]

\* the row the INSERT INTO archived_tasks writes for task row t
ArchiveRow(aid, user_id, board_id, board_name, t, ts) ==
    [id |-> aid, user_id |-> user_id, original_task_id |-> t.id,
     board_id |-> board_id, board_name_at_archive |-> board_name,
     task |-> t.task, due_date |-> t.due_date, notes |-> t.notes,
     completed_on |-> t.completed_on, archived_on |-> ts]

\* the storage failures that can hit the insert/delete loop over rows
FailChoices(rows) ==
    {NoFail} \cup
    { [j |-> j, step |-> s] : j \in 1..Len(rows), s \in {"insert", "delete"} }

Untouched(T, A, aseq) ==
    [tasks |-> T, archived_tasks |-> A, archive_seq |-> aseq, ret |-> 0,
     err |-> "", rows |-> << >>, fail |-> NoFail]

\* mutant: the loop inserts the archive rows and deletes no task row
ArchiveOldestCompleted_KeepsTask(T, A, aseq, rows, board_id, user_id, board_name, fail, ts) ==
    LET n == Len(rows)
        raised == fail.j \in 1..n
        inserted == IF ~raised THEN n
                    ELSE IF fail.step = "insert" THEN fail.j - 1 ELSE fail.j
        deleted == IF ~raised THEN n ELSE fail.j - 1
        gone == {rows[i].id : i \in 1..deleted}
    IN [tasks |-> T,
        archived_tasks |-> A \cup
            { ArchiveRow(aseq + i, user_id, board_id, board_name, rows[i], ts) :
                i \in 1..inserted },
        archive_seq |-> aseq + inserted,
        ret |-> IF raised THEN 0 ELSE n,
        err |-> IF raised THEN "storage" ELSE "",
        rows |-> rows, fail |-> fail]

\* the insert/delete loop of _archive_oldest_completed over the selected rows;
\* a failure at (j, step) raises out of the loop with the statements before
\* it already executed on the cursor's transaction
ArchiveOldestCompleted(T, A, aseq, rows, board_id, user_id, board_name, fail, ts) ==
    LET n == Len(rows)
        raised == fail.j \in 1..n
        inserted == IF ~raised THEN n
                    ELSE IF fail.step = "insert" THEN fail.j - 1 ELSE fail.j
        deleted == IF ~raised THEN n ELSE fail.j - 1
        gone == {rows[i].id : i \in 1..deleted}
    IN [tasks |-> {t \in T : t.id \notin gone},
        archived_tasks |-> A \cup
            { ArchiveRow(aseq + i, user_id, board_id, board_name, rows[i], ts) :
                i \in 1..inserted },
        archive_seq |-> aseq + inserted,
        ret |-> IF raised THEN 0 ELSE n,
        err |-> IF raised THEN "storage" ELSE "",
        rows |-> rows, fail |-> fail]

\* the ownership-scoped board lookup, then _archive_oldest_completed with
\* limit `overflow`: every select result and every failure point
ArchiveForBoard(T, A, B, aseq, board_id, user_id, overflow, ts) ==
    IF OwnedBoard(B, board_id, user_id) = {} THEN {Untouched(T, A, aseq)}
    ELSE LET board_name == (CHOOSE r \in OwnedBoard(B, board_id, user_id) : TRUE).header
         IN UNION { { ArchiveOldestCompleted(T, A, aseq, rows, board_id, user_id,
                                             board_name, fail, ts) :
                        fail \in FailChoices(rows) } :
                    rows \in SelectOldestCompleted(T, board_id, overflow) }

\* mutant: required_additional is used as given, without max(0, .)
ArchiveToFitWithCursor_NoClamp(T, A, B, aseq, board_id, user_id, required_additional, ts) ==
    LET total == Cardinality(BoardTasks(T, board_id))
        overflow == total + required_additional - MAX_TASKS_PER_BOARD
    IN IF overflow <= 0 THEN {Untouched(T, A, aseq)}
       ELSE ArchiveForBoard(T, A, B, aseq, board_id, user_id, overflow, ts)

\* the body archive_to_fit runs on its cursor
ArchiveToFitWithCursor(T, A, B, aseq, board_id, user_id, required_additional, ts) ==
    LET total == Cardinality(BoardTasks(T, board_id))
        overflow == total + Max(0, required_additional) - MAX_TASKS_PER_BOARD
    IN IF overflow <= 0 THEN {Untouched(T, A, aseq)}
       ELSE ArchiveForBoard(T, A, B, aseq, board_id, user_id, overflow, ts)

\* mutant: makes room for one more row, as archive_to_fit does by default
ArchiveOverflowWithCursor_RoomForOne(T, A, B, aseq, board_id, user_id, ts) ==
    ArchiveToFitWithCursor(T, A, B, aseq, board_id, user_id, 1, ts)

\* mutant: a run archives one row even when the board is within the ceiling
ArchiveOverflowWithCursor_AtLeastOne(T, A, B, aseq, board_id, user_id, ts) ==
    LET total_tasks == Cardinality(BoardTasks(T, board_id))
        overflow_count == Max(1, total_tasks - MAX_TASKS_PER_BOARD)
    IN ArchiveForBoard(T, A, B, aseq, board_id, user_id, overflow_count, ts)

\* _archive_overflow_with_cursor: the outcomes of one run on tables T, A
ArchiveOverflowWithCursor(T, A, B, aseq, board_id, user_id, ts) ==
    LET total_tasks == Cardinality(BoardTasks(T, board_id))
        overflow_count == total_tasks - MAX_TASKS_PER_BOARD
    IN IF total_tasks <= MAX_TASKS_PER_BOARD THEN {Untouched(T, A, aseq)}
       ELSE ArchiveForBoard(T, A, B, aseq, board_id, user_id, overflow_count, ts)

\* mutant: the feature flag is ignored
should_archive_Always == TRUE

should_archive == ENABLE_ARCHIVE_ON_COMPLETE

\* mutant: the engine never looks at the board
ArchiveOverflowTasks_Skipped(T, A, B, aseq, board_id, user_id, ts) ==
    {Untouched(T, A, aseq)}

\* archive_overflow_tasks up to (not including) commit
ArchiveOverflowTasks(T, A, B, aseq, board_id, user_id, ts) ==
    IF ~should_archive THEN {Untouched(T, A, aseq)}
    ELSE ArchiveOverflowWithCursor(T, A, B, aseq, board_id, user_id, ts)

\* archive_to_fit up to (not including) commit
ArchiveToFit(T, A, B, aseq, board_id, user_id, required_additional, ts) ==
    IF ~should_archive THEN {Untouched(T, A, aseq)}
    ELSE ArchiveToFitWithCursor(T, A, B, aseq, board_id, user_id,
                                required_additional, ts)

\* ------------------------------------------- mcp_server: bulk_complete_tasks

\* mutant: the SELECT of the loop has no is_completed = FALSE
RECURSIVE BulkMark_CompletedToo(_, _, _, _, _, _)
BulkMark_CompletedToo(T, B, board_id, user_id, ids, today_str) ==
    IF ids = << >> THEN [tasks |-> T, completed |-> 0, skipped |-> << >>]
    ELSE LET task_id == Head(ids)
             found == { t \in T : /\ t.id = task_id
                                  /\ t.board_id = board_id
                                  /\ OwnedBoard(B, t.board_id, user_id) # {} }
         IN IF found = {}
            THEN LET rest == BulkMark_CompletedToo(T, B, board_id, user_id,
                                                   Tail(ids), today_str)
                 IN [rest EXCEPT !.skipped = << task_id >> \o @]
            ELSE LET T2 == { IF t.id = task_id
                             THEN [t EXCEPT !.is_completed = TRUE,
                                            !.completed_on = today_str]
                             ELSE t : t \in T }
                     rest == BulkMark_CompletedToo(T2, B, board_id, user_id,
                                                   Tail(ids), today_str)
                 IN [rest EXCEPT !.completed = @ + 1]

\* the marking loop of _bulk over the request list, on the working tables T
RECURSIVE BulkMark(_, _, _, _, _, _)
BulkMark(T, B, board_id, user_id, ids, today_str) ==
    IF ids = << >> THEN [tasks |-> T, completed |-> 0, skipped |-> << >>]
    ELSE LET task_id == Head(ids)
             found == { t \in T : /\ t.id = task_id
                                  /\ t.board_id = board_id
                                  /\ OwnedBoard(B, t.board_id, user_id) # {}
                                  /\ ~t.is_completed }
         IN IF found = {}
            THEN LET rest == BulkMark(T, B, board_id, user_id, Tail(ids), today_str)
                 IN [rest EXCEPT !.skipped = << task_id >> \o @]
            ELSE LET T2 == { IF t.id = task_id
                             THEN [t EXCEPT !.is_completed = TRUE,
                                            !.completed_on = today_str]
                             ELSE t : t \in T }
                     rest == BulkMark(T2, B, board_id, user_id, Tail(ids), today_str)
                 IN [rest EXCEPT !.completed = @ + 1]

\* the request lists: ids of rows added after start-up, and one unknown id
BulkRequests ==
    UNION { [1..n -> (seed + 1)..(task_seq + 1)] : n \in 1..MaxBulk }

\* a worker thread with no request in hand
NoSession ==
    [pc |-> "idle", op |-> "none", board_id |-> "", task_id |-> 0,
     is_completed |-> FALSE, marked |-> {}, completed |-> 0, skipped |-> << >>,
     board_name |-> "", rows |-> << >>, task_idx |-> 0,
     data |-> [boards |-> {}, tasks |-> {}]]

Sessions == {1, 2}

\* ------------------------------------------------------------------ Init
Init ==
    /\ \E c \in Configs :
          /\ ENABLE_ARCHIVE_ON_COMPLETE = c[1]
          /\ MAX_TASKS_PER_BOARD = c[2]
          /\ seed = c[3] + c[4] + 1
          /\ tasks = SeedTasks(c[3], c[4])
    /\ boards = { [id |-> "b1", user_id |-> 1, header |-> "Your Tasks"],
                  [id |-> "b2", user_id |-> 2, header |-> "Your Tasks"] }
    /\ archived_tasks = {}
    /\ task_seq = seed
    /\ archive_seq = 0
    /\ used_task_ids = 1..seed
    /\ evicted = {}
    /\ now = 0
    /\ conn = NoConn
    /\ pc = "idle"
    /\ last = NoCall
    /\ board_seq = 0
    /\ requests = 0
    /\ sessions = [s \in Sessions |-> NoSession]

\* --------------------------------------------------------------- actions

\* time passes
Tick ==
    /\ pc = "idle"
    /\ now < MaxClock
    /\ now' = now + 1
    /\ UNCHANGED << config, others, boards, tasks, archived_tasks, task_seq, archive_seq,
                    used_task_ids, evicted, conn, pc, last >>

\* Database.add_task
AddTask(board_id, user_id, p) ==
    /\ pc = "idle"
    /\ task_seq < seed + MaxNewTasks
    /\ LET active_count == Cardinality(ActiveTasks(tasks, board_id))
           position == MaxPosition(ActiveTasks(tasks, board_id)) + 1
           ok == OwnedBoard(boards, board_id, user_id) # {} /\ active_count < ACTIVE_CAP
       IN /\ IF ok
             THEN /\ tasks' = tasks \cup
                        { [id |-> task_seq + 1, board_id |-> board_id,
                           task |-> p.task, due_date |-> p.due_date,
                           notes |-> p.notes, is_completed |-> FALSE,
                           completed_on |-> NULL, position |-> position,
                           created_at |-> now] }
                  /\ task_seq' = task_seq + 1
                  /\ used_task_ids' = used_task_ids \cup {task_seq + 1}
             ELSE UNCHANGED << tasks, task_seq, used_task_ids >>
          /\ last' = [NoCall EXCEPT !.op = "add_task", !.user_id = user_id,
                                    !.board_id = board_id,
                                    !.ret = IF ok THEN 1 ELSE 0]
    /\ pc' = "done"
    /\ UNCHANGED << config, others, boards, archived_tasks, archive_seq, evicted, now,
                    conn >>

\* bookkeeping for the archive rows a committed engine run added: the user
\* columns of the task row (of the tables T the engine ran on) each was made
\* from, and who owned that row's board then
Origins(T, A_old, A_new) ==
    UNION { { [archive_id |-> a.id,
                owners |-> {b.user_id : b \in {x \in boards : x.id = t.board_id}},
                row |-> [id |-> t.id, board_id |-> t.board_id, task |-> t.task,
                         due_date |-> t.due_date, notes |-> t.notes,
                         completed_on |-> t.completed_on]] :
                t \in {x \in T : x.id = a.original_task_id} } :
            a \in A_new \ A_old }

\* the record of an engine call with outcome o
EngineCall(op, board_id, user_id, additional, with_conn, o, T, A) ==
    [NoCall EXCEPT !.op = op, !.user_id = user_id, !.board_id = board_id,
                   !.additional = additional, !.with_conn = with_conn,
                   !.ret = o.ret, !.err = o.err, !.rows = o.rows,
                   !.fail = o.fail, !.pre_tasks = tasks,
                   !.pre_archived = archived_tasks, !.pre_used = used_task_ids,
                   !.call_tasks = T, !.call_archived = A]

\* mutant: the engine returns from its own connection without committing
OwnConnection_NoCommit(op, board_id, user_id, additional, outcomes) ==
    /\ pc = "idle"
    /\ \E o \in outcomes :
          last' = [EngineCall(op, board_id, user_id, additional, FALSE, o,
                              tasks, archived_tasks)
                     EXCEPT !.outcome = IF o.err = "" THEN "committed"
                                        ELSE "rolled_back"]
    /\ pc' = "done"
    /\ UNCHANGED << config, others, boards, tasks, archived_tasks, archive_seq,
                    evicted, task_seq, used_task_ids, now, conn >>

\* the engine opens its own connection (conn=None): it commits on return, and
\* get_connection rolls back and closes when the body raises
OwnConnection(op, board_id, user_id, additional, outcomes) ==
    /\ pc = "idle"
    /\ \E o \in outcomes :
          /\ IF o.err = ""
             THEN /\ tasks' = o.tasks
                  /\ archived_tasks' = o.archived_tasks
                  /\ archive_seq' = o.archive_seq
                  /\ evicted' = evicted \cup
                        Origins(tasks, archived_tasks, o.archived_tasks)
             ELSE UNCHANGED << tasks, archived_tasks, archive_seq, evicted >>
          /\ last' = [EngineCall(op, board_id, user_id, additional, FALSE, o,
                                 tasks, archived_tasks)
                        EXCEPT !.outcome = IF o.err = "" THEN "committed"
                                           ELSE "rolled_back"]
    /\ pc' = "done"
    /\ UNCHANGED << config, others, boards, task_seq, used_task_ids, now, conn >>

\* mutant: the engine commits on the connection the caller passed
CallerConnection_EngineCommits(op, board_id, user_id, additional, outcomes) ==
    /\ pc = "idle"
    /\ \E o \in outcomes :
          /\ conn' = [open |-> TRUE, tasks |-> o.tasks,
                      archived_tasks |-> o.archived_tasks,
                      archive_seq |-> o.archive_seq]
          /\ IF o.err = ""
             THEN tasks' = o.tasks /\ archived_tasks' = o.archived_tasks
             ELSE UNCHANGED << tasks, archived_tasks >>
          /\ pc' = IF o.err = "" THEN "returned" ELSE "raised"
          /\ last' = [EngineCall(op, board_id, user_id, additional, TRUE, o,
                                 tasks, archived_tasks)
                        EXCEPT !.outcome = "open"]
    /\ UNCHANGED << config, others, boards, task_seq, archive_seq, used_task_ids,
                    evicted, now >>

\* the caller opens a connection and passes it (conn=conn): the engine leaves
\* its statements in the caller's open transaction
CallerConnection(op, board_id, user_id, additional, outcomes) ==
    /\ pc = "idle"
    /\ \E o \in outcomes :
          /\ conn' = [open |-> TRUE, tasks |-> o.tasks,
                      archived_tasks |-> o.archived_tasks,
                      archive_seq |-> o.archive_seq]
          /\ pc' = IF o.err = "" THEN "returned" ELSE "raised"
          /\ last' = [EngineCall(op, board_id, user_id, additional, TRUE, o,
                                 tasks, archived_tasks)
                        EXCEPT !.outcome = "open"]
    /\ UNCHANGED << config, others, boards, tasks, archived_tasks, task_seq, archive_seq,
                    used_task_ids, evicted, now >>

\* ArchiveManager.archive_overflow_tasks(board_id, user_id)
ArchiveOverflowOwn(board_id, user_id) ==
    OwnConnection("archive_overflow", board_id, user_id, 0,
        ArchiveOverflowTasks(tasks, archived_tasks, boards, archive_seq,
                             board_id, user_id, now))

\* ArchiveManager.archive_overflow_tasks(board_id, user_id, conn=conn)
ArchiveOverflowConn(board_id, user_id) ==
    CallerConnection("archive_overflow", board_id, user_id, 0,
        ArchiveOverflowTasks(tasks, archived_tasks, boards, archive_seq,
                             board_id, user_id, now))

\* ArchiveManager.archive_to_fit(board_id, user_id, required_additional)
ArchiveToFitOwn(board_id, user_id, required_additional) ==
    OwnConnection("archive_to_fit", board_id, user_id, required_additional,
        ArchiveToFit(tasks, archived_tasks, boards, archive_seq,
                     board_id, user_id, required_additional, now))

\* ArchiveManager.archive_to_fit(board_id, user_id, required_additional, conn=conn)
ArchiveToFitConn(board_id, user_id, required_additional) ==
    CallerConnection("archive_to_fit", board_id, user_id, required_additional,
        ArchiveToFit(tasks, archived_tasks, boards, archive_seq,
                     board_id, user_id, required_additional, now))

\* mutant: _bulk commits the completions before it calls the engine
BulkComplete_CommitsFirst(board_id, user_id, ids) ==
    /\ pc = "idle"
    /\ ids \in BulkRequests
    /\ IF OwnedBoard(boards, board_id, user_id) = {}
       THEN /\ last' = [NoCall EXCEPT !.op = "bulk_complete", !.user_id = user_id,
                                      !.board_id = board_id,
                                      !.with_conn = TRUE, !.err = "not_found",
                                      !.outcome = "rolled_back",
                                      !.pre_tasks = tasks,
                                      !.pre_archived = archived_tasks,
                                      !.pre_used = used_task_ids]
            /\ pc' = "done"
            /\ UNCHANGED << conn, tasks >>
       ELSE LET m == BulkMark(tasks, boards, board_id, user_id, ids, DateOf(now))
            IN \E o \in ArchiveOverflowTasks(m.tasks, archived_tasks, boards,
                                             archive_seq, board_id, user_id, now) :
                  /\ tasks' = m.tasks
                  /\ conn' = [open |-> TRUE, tasks |-> o.tasks,
                              archived_tasks |-> o.archived_tasks,
                              archive_seq |-> o.archive_seq]
                  /\ pc' = IF o.err = "" THEN "returned" ELSE "raised"
                  /\ last' = [EngineCall("bulk_complete", board_id, user_id, 0,
                                         TRUE, o, m.tasks, archived_tasks)
                                EXCEPT !.ids = ids, !.completed = m.completed,
                                       !.skipped = m.skipped, !.outcome = "open"]
    /\ UNCHANGED << config, others, boards, archived_tasks, task_seq, archive_seq,
                    used_task_ids, evicted, now >>

\* bulk_complete_tasks._bulk up to (not including) conn.commit()
BulkComplete(board_id, user_id, ids) ==
    /\ pc = "idle"
    /\ ids \in BulkRequests
    /\ IF OwnedBoard(boards, board_id, user_id) = {}
       THEN /\ last' = [NoCall EXCEPT !.op = "bulk_complete", !.user_id = user_id,
                                      !.board_id = board_id,
                                      !.with_conn = TRUE, !.err = "not_found",
                                      !.outcome = "rolled_back",
                                      !.pre_tasks = tasks,
                                      !.pre_archived = archived_tasks,
                                      !.pre_used = used_task_ids]
            /\ pc' = "done"
            /\ UNCHANGED conn
       ELSE LET m == BulkMark(tasks, boards, board_id, user_id, ids, DateOf(now))
            IN \E o \in ArchiveOverflowTasks(m.tasks, archived_tasks, boards,
                                             archive_seq, board_id, user_id, now) :
                  /\ conn' = [open |-> TRUE, tasks |-> o.tasks,
                              archived_tasks |-> o.archived_tasks,
                              archive_seq |-> o.archive_seq]
                  /\ pc' = IF o.err = "" THEN "returned" ELSE "raised"
                  /\ last' = [EngineCall("bulk_complete", board_id, user_id, 0,
                                         TRUE, o, m.tasks, archived_tasks)
                                EXCEPT !.ids = ids, !.completed = m.completed,
                                       !.skipped = m.skipped, !.outcome = "open"]
    /\ UNCHANGED << config, others, boards, tasks, archived_tasks, task_seq, archive_seq,
                    used_task_ids, evicted, now >>

\* conn.commit() of the caller, then get_connection closes the connection
Commit ==
    /\ pc = "returned"
    /\ tasks' = conn.tasks
    /\ archived_tasks' = conn.archived_tasks
    /\ archive_seq' = conn.archive_seq
    /\ evicted' = evicted \cup
          Origins(last.call_tasks, archived_tasks, conn.archived_tasks)
    /\ conn' = NoConn
    /\ pc' = "done"
    /\ last' = [last EXCEPT !.outcome = "committed"]
    /\ UNCHANGED << config, others, boards, task_seq, used_task_ids, now >>

\* mutant: the handler closes the connection with the work done so far kept
Rollback_KeepsWork ==
    /\ pc \in {"returned", "raised"}
    /\ tasks' = conn.tasks
    /\ archived_tasks' = conn.archived_tasks
    /\ archive_seq' = conn.archive_seq
    /\ conn' = NoConn
    /\ pc' = "done"
    /\ last' = [last EXCEPT !.outcome = "rolled_back",
                            !.err = IF @ = "" THEN "storage" ELSE @]
    /\ UNCHANGED << config, others, boards, task_seq, used_task_ids, evicted, now >>

\* get_connection's handler: an exception inside the with-block (the one the
\* engine raised, or a failing commit) rolls the transaction back and closes
Rollback ==
    /\ pc \in {"returned", "raised"}
    /\ conn' = NoConn
    /\ pc' = "done"
    /\ last' = [last EXCEPT !.outcome = "rolled_back",
                            !.err = IF @ = "" THEN "storage" ELSE @]
    /\ UNCHANGED << config, others, boards, tasks, archived_tasks, task_seq, archive_seq,
                    used_task_ids, evicted, now >>

\* mutant: the restored row takes the archived task's original id back
RestoredTask_ReusesId(archived, new_task_id, next_position, ts) ==
    [id |-> archived.original_task_id, board_id |-> archived.board_id,
     task |-> archived.task, due_date |-> archived.due_date,
     notes |-> archived.notes, is_completed |-> FALSE,
     completed_on |-> NULL, position |-> next_position, created_at |-> ts]

\* the row the INSERT INTO tasks of _restore writes for archive row `archived`
RestoredTask(archived, new_task_id, next_position, ts) ==
    [id |-> new_task_id, board_id |-> archived.board_id,
     task |-> archived.task, due_date |-> archived.due_date,
     notes |-> archived.notes, is_completed |-> FALSE,
     completed_on |-> NULL, position |-> next_position, created_at |-> ts]

\* mutant: the recorded board is not looked up
Restore_NoBoardCheck(archived_task_id, user_id) ==
    /\ pc = "idle"
    /\ task_seq < seed + MaxNewTasks
    /\ LET found == { a \in archived_tasks :
                        a.id = archived_task_id /\ a.user_id = user_id }
           archived == CHOOSE a \in found : TRUE
           board_id == archived.board_id
           err == IF found = {} THEN "not_found"
                  ELSE IF Cardinality(ActiveTasks(tasks, board_id))
                             >= MAX_TASKS_PER_BOARD THEN "capacity"
                  ELSE ""
           call == [NoCall EXCEPT !.op = "restore", !.user_id = user_id,
                                  !.archived_task_id = archived_task_id,
                                  !.pre_tasks = tasks,
                                  !.pre_archived = archived_tasks,
                                  !.pre_used = used_task_ids,
                                  !.origin = {e.row : e \in
                                     {x \in evicted :
                                        x.archive_id = archived_task_id}}]
       IN IF err # ""
          THEN /\ last' = [call EXCEPT !.err = err, !.outcome = "rolled_back",
                                       !.board_id = IF found = {} THEN ""
                                                    ELSE board_id]
               /\ UNCHANGED << tasks, archived_tasks, task_seq, used_task_ids,
                               evicted >>
          ELSE LET next_position == MaxPosition(ActiveTasks(tasks, board_id)) + 1
                   new_task == RestoredTask(archived, task_seq + 1,
                                            next_position, now)
               IN /\ tasks' = tasks \cup {new_task}
                  /\ archived_tasks' =
                        {a \in archived_tasks : a.id # archived_task_id}
                  /\ evicted' = {e \in evicted : e.archive_id # archived_task_id}
                  /\ task_seq' = task_seq + 1
                  /\ used_task_ids' = used_task_ids \cup {new_task.id}
                  /\ last' = [call EXCEPT !.ret = new_task.id,
                                          !.board_id = board_id,
                                          !.outcome = "committed"]
    /\ pc' = "done"
    /\ UNCHANGED << config, others, boards, archive_seq, now, conn >>

\* restore_archived_task._restore
Restore(archived_task_id, user_id) ==
    /\ pc = "idle"
    /\ task_seq < seed + MaxNewTasks
    /\ LET found == { a \in archived_tasks :
                        a.id = archived_task_id /\ a.user_id = user_id }
           archived == CHOOSE a \in found : TRUE
           board_id == archived.board_id
           err == IF found = {} THEN "not_found"
                  ELSE IF OwnedBoard(boards, board_id, user_id) = {} THEN "no_board"
                  ELSE IF Cardinality(ActiveTasks(tasks, board_id))
                             >= MAX_TASKS_PER_BOARD THEN "capacity"
                  ELSE ""
           call == [NoCall EXCEPT !.op = "restore", !.user_id = user_id,
                                  !.archived_task_id = archived_task_id,
                                  !.pre_tasks = tasks,
                                  !.pre_archived = archived_tasks,
                                  !.pre_used = used_task_ids,
                                  !.origin = {e.row : e \in
                                     {x \in evicted :
                                        x.archive_id = archived_task_id}}]
       IN IF err # ""
          THEN /\ last' = [call EXCEPT !.err = err, !.outcome = "rolled_back",
                                       !.board_id = IF found = {} THEN ""
                                                    ELSE board_id]
               /\ UNCHANGED << tasks, archived_tasks, task_seq, used_task_ids,
                               evicted >>
          ELSE LET next_position == MaxPosition(ActiveTasks(tasks, board_id)) + 1
                   new_task == RestoredTask(archived, task_seq + 1,
                                            next_position, now)
               IN /\ tasks' = tasks \cup {new_task}
                  /\ archived_tasks' =
                        {a \in archived_tasks : a.id # archived_task_id}
                  /\ evicted' = {e \in evicted : e.archive_id # archived_task_id}
                  /\ task_seq' = task_seq + 1
                  /\ used_task_ids' = used_task_ids \cup {new_task.id}
                  /\ last' = [call EXCEPT !.ret = new_task.id,
                                          !.board_id = board_id,
                                          !.outcome = "committed"]
    /\ pc' = "done"
    /\ UNCHANGED << config, others, boards, archive_seq, now, conn >>

\* the handler returns its result to the client; the next request can start
Return ==
    /\ pc = "done"
    /\ pc' = "idle"
    /\ last' = NoCall
    /\ UNCHANGED << config, others, boards, tasks, archived_tasks, task_seq, archive_seq,
                    used_task_ids, evicted, now, conn >>

Next ==
    \/ Tick /\ UNCHANGED requests
    \/ \E u \in Users, p \in Payloads : AddTask("b1", u, p) /\ UNCHANGED requests
    \/ \E b \in BoardIds, u \in Users :
          ArchiveOverflowOwn(b, u) /\ UNCHANGED requests
    \/ \E b \in BoardIds, u \in Users :
          ArchiveOverflowConn(b, u) /\ UNCHANGED requests
    \/ \E b \in BoardIds, u \in Users, r \in -1..MaxAdditional :
          ArchiveToFitOwn(b, u, r) /\ UNCHANGED requests
    \/ \E b \in BoardIds, u \in Users, r \in -1..MaxAdditional :
          ArchiveToFitConn(b, u, r) /\ UNCHANGED requests
    \/ \E b \in BoardIds, u \in Users :
          \E ids \in BulkRequests : BulkComplete(b, u, ids) /\ UNCHANGED requests
    \/ Commit /\ UNCHANGED requests
    \/ Rollback /\ UNCHANGED requests
    \/ Return /\ UNCHANGED requests
    \/ \E a \in 1..archive_seq, u \in Users : Restore(a, u) /\ UNCHANGED requests

Spec == Init /\ [][Next]_vars

\* ------------------------------------------------ boards: create / delete

\* the ids uuid4 hands out, in the order it hands them out
BoardPool == << "b3", "b4", "b5", "b6", "b7", "b8", "b9", "b10" >>

\* the header add_board of the web app gives the n-th board of a user
WebHeader == << "Board 1", "Board 2", "Board 3", "Board 4" >>

\* Database.count_user_boards
count_user_boards(B, user_id) == Cardinality({b \in B : b.user_id = user_id})

\* the record of a board request
BoardCall(op, user_id, board_id) ==
    [NoCall EXCEPT !.op = op, !.user_id = user_id, !.board_id = board_id,
                   !.pre_tasks = tasks, !.pre_archived = archived_tasks,
                   !.pre_boards = boards]

\* a board request that wrote nothing
BoardRefused(call, err) ==
    /\ last' = [call EXCEPT !.err = err, !.outcome = "rolled_back"]
    /\ UNCHANGED << boards, tasks, board_seq >>

\* Database.create_board with a fresh uuid4
InsertBoard(call, user_id, header) ==
    LET board_id == BoardPool[board_seq + 1]
    IN /\ boards' = boards \cup
             { [id |-> board_id, user_id |-> user_id, header |-> header] }
       /\ board_seq' = board_seq + 1
       /\ last' = [call EXCEPT !.board_id = board_id, !.ret = 1,
                               !.outcome = "committed"]
       /\ UNCHANGED tasks

\* mutant: the tasks of a deleted board stay
RemoveBoard_NoCascade(call, board_id, user_id) ==
    LET gone == OwnedBoard(boards, board_id, user_id)
    IN /\ boards' = boards \ gone
       /\ last' = [call EXCEPT !.ret = Cardinality(gone),
                               !.outcome = "committed"]
       /\ UNCHANGED << tasks, board_seq >>

\* DELETE FROM boards WHERE id = board_id AND user_id = user_id; the tasks of
\* a deleted board go with it (ON DELETE CASCADE)
RemoveBoard(call, board_id, user_id) ==
    LET gone == OwnedBoard(boards, board_id, user_id)
    IN /\ boards' = boards \ gone
       /\ tasks' = {t \in tasks : \A b \in gone : t.board_id # b.id}
       /\ last' = [call EXCEPT !.ret = Cardinality(gone),
                               !.outcome = "committed"]
       /\ UNCHANGED board_seq

\* mutant: the cap is checked with > instead of >=
CreateBoard_OffByOne(user_id, header) ==
    /\ pc = "idle"
    /\ board_seq < MaxNewBoards
    /\ LET current == count_user_boards(boards, user_id)
           call == BoardCall("create_board", user_id, "")
       IN IF current > BOARD_CAP
          THEN BoardRefused(call, "board_limit")
          ELSE InsertBoard(call, user_id, header)
    /\ pc' = "done"
    /\ UNCHANGED << config, archived_tasks, task_seq, archive_seq, used_task_ids,
                    evicted, now, conn, sessions >>

\* create_board._create
CreateBoard(user_id, header) ==
    /\ pc = "idle"
    /\ board_seq < MaxNewBoards
    /\ LET current == count_user_boards(boards, user_id)
           call == BoardCall("create_board", user_id, "")
       IN IF current >= BOARD_CAP
          THEN BoardRefused(call, "board_limit")
          ELSE InsertBoard(call, user_id, header)
    /\ pc' = "done"
    /\ UNCHANGED << config, archived_tasks, task_seq, archive_seq, used_task_ids,
                    evicted, now, conn, sessions >>

\* mutant: the last-board check is left out
DeleteBoard_NoFloor(board_id, user_id) ==
    /\ pc = "idle"
    /\ LET call == BoardCall("delete_board", user_id, board_id)
       IN IF OwnedBoard(boards, board_id, user_id) = {}
          THEN BoardRefused(call, "not_found")
          ELSE RemoveBoard(call, board_id, user_id)
    /\ pc' = "done"
    /\ UNCHANGED << config, archived_tasks, task_seq, archive_seq, used_task_ids,
                    evicted, now, conn, sessions >>

\* delete_board._delete
DeleteBoard(board_id, user_id) ==
    /\ pc = "idle"
    /\ LET call == BoardCall("delete_board", user_id, board_id)
       IN IF OwnedBoard(boards, board_id, user_id) = {}
          THEN BoardRefused(call, "not_found")
          ELSE IF count_user_boards(boards, user_id) <= 1
          THEN BoardRefused(call, "last_board")
          ELSE RemoveBoard(call, board_id, user_id)
    /\ pc' = "done"
    /\ UNCHANGED << config, archived_tasks, task_seq, archive_seq, used_task_ids,
                    evicted, now, conn, sessions >>

\* Database.delete_board: deletes when the user has more than one board, and
\* only logs a warning otherwise
DbDeleteBoard(board_id, user_id) ==
    /\ pc = "idle"
    /\ LET call == BoardCall("db_delete_board", user_id, board_id)
           board_count == count_user_boards(boards, user_id)
       IN IF board_count > 1
          THEN RemoveBoard(call, board_id, user_id)
          ELSE BoardRefused(call, "")
    /\ pc' = "done"
    /\ UNCHANGED << config, archived_tasks, task_seq, archive_seq, used_task_ids,
                    evicted, now, conn, sessions >>

\* add_board of the web app: a fifth board is silently not created
WebAddBoard(user_id) ==
    /\ pc = "idle"
    /\ board_seq < MaxNewBoards
    /\ LET n == count_user_boards(boards, user_id)
           call == BoardCall("add_board", user_id, "")
       IN IF n < BOARD_CAP
          THEN InsertBoard(call, user_id, WebHeader[n + 1])
          ELSE BoardRefused(call, "")
    /\ pc' = "done"
    /\ UNCHANGED << config, archived_tasks, task_seq, archive_seq, used_task_ids,
                    evicted, now, conn, sessions >>

\* remove_board of the web app
WebRemoveBoard(board_id, user_id) ==
    /\ pc = "idle"
    /\ LET call == BoardCall("remove_board", user_id, board_id)
       IN IF /\ OwnedBoard(boards, board_id, user_id) # {}
             /\ count_user_boards(boards, user_id) > 1
          THEN RemoveBoard(call, board_id, user_id)
          ELSE BoardRefused(call, "")
    /\ pc' = "done"
    /\ UNCHANGED << config, archived_tasks, task_seq, archive_seq, used_task_ids,
                    evicted, now, conn, sessions >>

\* the board ids a request names: those of the boards there are, and one
\* that names no board
BoardTargets == {b.id : b \in boards} \cup {BoardPool[board_seq + 1]}

NextBoards ==
    \/ \E u \in Users : CreateBoard(u, "n1") /\ UNCHANGED requests
    \/ \E b \in BoardTargets, u \in Users : DeleteBoard(b, u) /\ UNCHANGED requests
    \/ \E b \in BoardTargets, u \in Users :
          DbDeleteBoard(b, u) /\ UNCHANGED requests
    \/ \E u \in Users : WebAddBoard(u) /\ UNCHANGED requests
    \/ \E b \in BoardTargets, u \in Users :
          WebRemoveBoard(b, u) /\ UNCHANGED requests
    \/ Return /\ UNCHANGED requests

\* one start-up configuration: the board handlers read none of it
InitBoards == Init /\ ENABLE_ARCHIVE_ON_COMPLETE /\ MAX_TASKS_PER_BOARD = 1

SpecBoards == InitBoards /\ [][NextBoards]_vars

\* ------------------------------------------------- task and board edits

\* the record of a request about one task
TaskCall(op, user_id, board_id, task_id) ==
    [BoardCall(op, user_id, board_id) EXCEPT !.task_id = task_id]

\* what a task or board edit leaves alone
EditFrame ==
    << config, archived_tasks, task_seq, archive_seq, used_task_ids, evicted,
       now, conn, board_seq, sessions >>

\* the request raised (or found nothing to do): nothing is written
EditRefused(call, err) ==
    /\ last' = [call EXCEPT !.err = err, !.outcome = "rolled_back"]
    /\ UNCHANGED << boards, tasks >>

\* the rows LIMIT 1 OFFSET idx can return from S under an ORDER BY whose
\* strict order is Before (a function on pairs of rows): rows that tie come
\* in any order
RowsAtOffset(S, Before, idx) ==
    { t \in S :
        /\ Cardinality({x \in S : Before[x, t]}) <= idx
        /\ idx < Cardinality(S) - Cardinality({x \in S : Before[t, x]}) }

\* ORDER BY t.position, t.created_at
ByPosition(x, t) ==
    \/ x.position < t.position
    \/ x.position = t.position /\ x.created_at < t.created_at

\* ORDER BY t.completed_on DESC, t.created_at DESC
ByCompletionDesc(x, t) ==
    \/ x.completed_on > t.completed_on
    \/ x.completed_on = t.completed_on /\ x.created_at > t.created_at

\* tasks t JOIN boards b ON t.board_id = b.id WHERE b.user_id = user_id
TasksOfUser(T, B, user_id) ==
    { t \in T : OwnedBoard(B, t.board_id, user_id) # {} }

\* Database.complete_task
CompleteTask(board_id, user_id, task_idx) ==
    /\ pc = "idle"
    /\ LET call == TaskCall("complete_task", user_id, board_id, 0)
           section == ActiveTasks(TasksOfUser(tasks, boards, user_id), board_id)
           found == RowsAtOffset(section, [x, t \in section |-> ByPosition(x, t)], task_idx)
       IN IF found = {}
          THEN EditRefused(call, "")
          ELSE \E task \in found :
                  /\ tasks' = { IF t.id = task.id
                                THEN [t EXCEPT !.is_completed = TRUE,
                                               !.completed_on = DateOf(now)]
                                ELSE t : t \in tasks }
                  /\ last' = [call EXCEPT !.task_id = task.id, !.ret = 1,
                                          !.outcome = "committed"]
                  /\ UNCHANGED boards
    /\ pc' = "done"
    /\ UNCHANGED EditFrame

\* mutant: the UPDATE leaves completed_on as it is
UncompleteTask_KeepsDate(board_id, user_id, task_idx) ==
    /\ pc = "idle"
    /\ LET call == TaskCall("uncomplete_task", user_id, board_id, 0)
           active_count == Cardinality(ActiveTasks(tasks, board_id))
           section == CompletedTasks(TasksOfUser(tasks, boards, user_id), board_id)
           found == RowsAtOffset(section,
                                 [x, t \in section |-> ByCompletionDesc(x, t)],
                                 task_idx)
       IN IF ~(active_count < ACTIVE_CAP) \/ found = {}
          THEN EditRefused(call, "")
          ELSE \E task \in found :
                  /\ tasks' = { IF t.id = task.id
                                THEN [t EXCEPT !.is_completed = FALSE]
                                ELSE t : t \in tasks }
                  /\ last' = [call EXCEPT !.task_id = task.id, !.ret = 1,
                                          !.outcome = "committed"]
                  /\ UNCHANGED boards
    /\ pc' = "done"
    /\ UNCHANGED EditFrame

\* Database.uncomplete_task
UncompleteTask(board_id, user_id, task_idx) ==
    /\ pc = "idle"
    /\ LET call == TaskCall("uncomplete_task", user_id, board_id, 0)
           active_count == Cardinality(ActiveTasks(tasks, board_id))
           section == CompletedTasks(TasksOfUser(tasks, boards, user_id), board_id)
           found == RowsAtOffset(section,
                                 [x, t \in section |-> ByCompletionDesc(x, t)],
                                 task_idx)
       IN IF ~(active_count < ACTIVE_CAP) \/ found = {}
          THEN EditRefused(call, "")
          ELSE \E task \in found :
                  /\ tasks' = { IF t.id = task.id
                                THEN [t EXCEPT !.is_completed = FALSE,
                                               !.completed_on = NULL]
                                ELSE t : t \in tasks }
                  /\ last' = [call EXCEPT !.task_id = task.id, !.ret = 1,
                                          !.outcome = "committed"]
                  /\ UNCHANGED boards
    /\ pc' = "done"
    /\ UNCHANGED EditFrame

\* uncomplete of the web app, on the user's board file: the rows of the
\* board's "completed" list are the completed rows in position order, a row
\* without a "completed_on" key has completed_on NULL. The task is popped,
\* its completed_on key dropped, and it is appended to the active list, or
\* put back at its index when the active list is full; the file is saved
WebUncomplete(board_id, user_id, task_idx) ==
    /\ pc = "idle"
    /\ LET call == TaskCall("web_uncomplete", user_id, board_id, 0)
           active_tasks == ActiveTasks(tasks, board_id)
           completed_tasks == CompletedTasks(tasks, board_id)
           found == RowsAtOffset(completed_tasks,
                                 [x, t \in completed_tasks |-> ByPosition(x, t)],
                                 task_idx)
       IN IF OwnedBoard(boards, board_id, user_id) = {} \/ found = {}
          THEN EditRefused(call, "")
          ELSE \E task \in found :
                  /\ tasks' =
                       { IF t.id # task.id THEN t
                         ELSE IF Cardinality(active_tasks) < ACTIVE_CAP
                         THEN [t EXCEPT !.is_completed = FALSE,
                                        !.completed_on = NULL,
                                        !.position = MaxPosition(active_tasks) + 1]
                         ELSE [t EXCEPT !.completed_on = NULL] : t \in tasks }
                  /\ last' = [call EXCEPT !.task_id = task.id,
                                 !.ret = IF Cardinality(active_tasks) < ACTIVE_CAP
                                         THEN 1 ELSE 0,
                                 !.outcome = "committed"]
                  /\ UNCHANGED boards
    /\ pc' = "done"
    /\ UNCHANGED EditFrame

\* the column updates an update_task request can carry
Updates ==
    { [cols |-> {"task", "notes"}, task |-> "c", due_date |-> 0, notes |-> "m"] }

\* update_task._update
UpdateTask(task_id, user_id, updates) ==
    /\ pc = "idle"
    /\ LET call == TaskCall("update_task", user_id, "", task_id)
           original == { t \in TasksOfUser(tasks, boards, user_id) : t.id = task_id }
       IN IF original = {}
          THEN EditRefused(call, "not_found")
          ELSE /\ tasks' =
                    { IF t.id = task_id
                      THEN [t EXCEPT
                              !.task = IF "task" \in updates.cols
                                       THEN updates.task ELSE @,
                              !.due_date = IF "due_date" \in updates.cols
                                           THEN updates.due_date ELSE @,
                              !.notes = IF "notes" \in updates.cols
                                        THEN updates.notes ELSE @]
                      ELSE t : t \in tasks }
               /\ last' = [call EXCEPT !.ret = 1, !.outcome = "committed"]
               /\ UNCHANGED boards
    /\ pc' = "done"
    /\ UNCHANGED EditFrame

\* mutant: the task is looked up by id alone, without the join on boards
DeleteTask_AnyOwner(task_id, user_id) ==
    /\ pc = "idle"
    /\ LET call == TaskCall("delete_task", user_id, "", task_id)
           row == { t \in tasks : t.id = task_id }
       IN IF row = {}
          THEN EditRefused(call, "not_found")
          ELSE /\ tasks' = { t \in tasks : t.id # task_id }
               /\ last' = [call EXCEPT !.ret = 1, !.outcome = "committed",
                                       !.board_id = (CHOOSE t \in row : TRUE).board_id]
               /\ UNCHANGED boards
    /\ pc' = "done"
    /\ UNCHANGED EditFrame

\* delete_task._delete
DeleteTask(task_id, user_id) ==
    /\ pc = "idle"
    /\ LET call == TaskCall("delete_task", user_id, "", task_id)
           row == { t \in TasksOfUser(tasks, boards, user_id) : t.id = task_id }
       IN IF row = {}
          THEN EditRefused(call, "not_found")
          ELSE /\ tasks' = { t \in tasks : t.id # task_id }
               /\ last' = [call EXCEPT !.ret = 1, !.outcome = "committed",
                                       !.board_id = (CHOOSE t \in row : TRUE).board_id]
               /\ UNCHANGED boards
    /\ pc' = "done"
    /\ UNCHANGED EditFrame

\* the delete loop of _bulk_delete over the request list
RECURSIVE BulkDelete(_, _, _, _, _)
BulkDelete(T, B, board_id, user_id, ids) ==
    IF ids = << >> THEN [tasks |-> T, deleted |-> 0, skipped |-> << >>]
    ELSE LET task_id == Head(ids)
             found == { t \in TasksOfUser(T, B, user_id) :
                          t.id = task_id /\ t.board_id = board_id }
         IN IF found = {}
            THEN LET rest == BulkDelete(T, B, board_id, user_id, Tail(ids))
                 IN [rest EXCEPT !.skipped = << task_id >> \o @]
            ELSE LET rest == BulkDelete({t \in T : t.id # task_id}, B, board_id,
                                        user_id, Tail(ids))
                 IN [rest EXCEPT !.deleted = @ + 1]

\* the task ids a request names: those of the rows there are, and one that
\* names no row
TaskTargets == {t.id : t \in tasks} \cup {task_seq + 1}

\* bulk_delete_tasks._bulk_delete
BulkDeleteTasks(board_id, user_id, ids) ==
    /\ pc = "idle"
    /\ LET call == [TaskCall("bulk_delete", user_id, board_id, 0) EXCEPT !.ids = ids]
       IN IF OwnedBoard(boards, board_id, user_id) = {}
          THEN EditRefused(call, "not_found")
          ELSE LET m == BulkDelete(tasks, boards, board_id, user_id, ids)
               IN /\ tasks' = m.tasks
                  /\ last' = [call EXCEPT !.ret = m.deleted, !.skipped = m.skipped,
                                          !.outcome = "committed"]
                  /\ UNCHANGED boards
    /\ pc' = "done"
    /\ UNCHANGED EditFrame

\* the orders a reorder request can name: the permutations of the section's
\* ids, and a list that leaves the section's ids out
Orderings(S) ==
    LET ids == {t.id : t \in S}
        n == Cardinality(ids)
    IN { f \in [1..n -> ids] : \A i, j \in 1..n : i # j => f[i] # f[j] } \cup
       { << task_seq + 1 >> }

\* reorder_tasks._reorder
ReorderTasks(board_id, user_id, ordered_task_ids, is_completed) ==
    /\ pc = "idle"
    /\ ordered_task_ids # << >>
    /\ LET call == [TaskCall("reorder", user_id, board_id, 0)
                      EXCEPT !.ids = ordered_task_ids,
                             !.is_completed = is_completed]
           existing_ids ==
               { t.id : t \in { x \in TasksOfUser(tasks, boards, user_id) :
                                  /\ x.board_id = board_id
                                  /\ x.is_completed = is_completed } }
           requested == { ordered_task_ids[i] : i \in 1..Len(ordered_task_ids) }
           position(task_id) ==
               CHOOSE p \in 1..Len(ordered_task_ids) :
                  /\ ordered_task_ids[p] = task_id
                  /\ \A q \in 1..Len(ordered_task_ids) :
                        ordered_task_ids[q] = task_id => q <= p
       IN IF OwnedBoard(boards, board_id, user_id) = {}
          THEN EditRefused(call, "not_found")
          ELSE IF existing_ids # requested
          THEN EditRefused(call, "mismatch")
          ELSE /\ tasks' = { IF t.id \in requested
                             THEN [t EXCEPT !.position = position(t.id)]
                             ELSE t : t \in tasks }
               /\ last' = [call EXCEPT !.ret = Len(ordered_task_ids),
                                       !.outcome = "committed"]
               /\ UNCHANGED boards
    /\ pc' = "done"
    /\ UNCHANGED EditFrame

\* mutant: the UPDATE writes board_id and leaves position as it was
MoveTask_KeepsPosition(task_id, target_board_id, user_id) ==
    /\ pc = "idle"
    /\ LET call == TaskCall("move", user_id, target_board_id, task_id)
           found == { t \in TasksOfUser(tasks, boards, user_id) : t.id = task_id }
           row == CHOOSE t \in found : TRUE
           source_board == row.board_id
           count == Cardinality(ActiveTasks(tasks, target_board_id))
           next_position ==
               MaxPosition({ t \in BoardTasks(tasks, target_board_id) :
                               t.is_completed = row.is_completed }) + 1
       IN IF found = {}
          THEN EditRefused(call, "not_found")
          ELSE IF source_board = target_board_id
          THEN /\ last' = [call EXCEPT !.outcome = "unchanged"]
               /\ UNCHANGED << boards, tasks >>
          ELSE IF OwnedBoard(boards, target_board_id, user_id) = {}
          THEN EditRefused(call, "no_board")
          ELSE IF ~row.is_completed /\ count >= ACTIVE_CAP
          THEN EditRefused(call, "capacity")
          ELSE /\ tasks' = { IF t.id = task_id
                             THEN [t EXCEPT !.board_id = target_board_id]
                             ELSE t : t \in tasks }
               /\ last' = [call EXCEPT !.ret = 1, !.outcome = "committed"]
               /\ UNCHANGED boards
    /\ pc' = "done"
    /\ UNCHANGED EditFrame

\* move_task_between_boards._move
MoveTask(task_id, target_board_id, user_id) ==
    /\ pc = "idle"
    /\ LET call == TaskCall("move", user_id, target_board_id, task_id)
           found == { t \in TasksOfUser(tasks, boards, user_id) : t.id = task_id }
           row == CHOOSE t \in found : TRUE
           source_board == row.board_id
           count == Cardinality(ActiveTasks(tasks, target_board_id))
           next_position ==
               MaxPosition({ t \in BoardTasks(tasks, target_board_id) :
                               t.is_completed = row.is_completed }) + 1
       IN IF found = {}
          THEN EditRefused(call, "not_found")
          ELSE IF source_board = target_board_id
          THEN /\ last' = [call EXCEPT !.outcome = "unchanged"]
               /\ UNCHANGED << boards, tasks >>
          ELSE IF OwnedBoard(boards, target_board_id, user_id) = {}
          THEN EditRefused(call, "no_board")
          ELSE IF ~row.is_completed /\ count >= ACTIVE_CAP
          THEN EditRefused(call, "capacity")
          ELSE /\ tasks' = { IF t.id = task_id
                             THEN [t EXCEPT !.board_id = target_board_id,
                                            !.position = next_position]
                             ELSE t : t \in tasks }
               /\ last' = [call EXCEPT !.ret = 1, !.outcome = "committed"]
               /\ UNCHANGED boards
    /\ pc' = "done"
    /\ UNCHANGED EditFrame

\* update_board_name._rename
UpdateBoardName(board_id, user_id, new_name) ==
    /\ pc = "idle"
    /\ LET call == BoardCall("rename_board", user_id, board_id)
       IN IF OwnedBoard(boards, board_id, user_id) = {}
          THEN EditRefused(call, "not_found")
          ELSE /\ boards' = { IF b.id = board_id /\ b.user_id = user_id
                              THEN [b EXCEPT !.header = new_name]
                              ELSE b : b \in boards }
               /\ last' = [call EXCEPT !.ret = 1, !.outcome = "committed"]
               /\ UNCHANGED tasks
    /\ pc' = "done"
    /\ UNCHANGED EditFrame

\* ---------------------------------------------------------- archive reader

\* the columns get_archived_tasks selects
ListedRow(a) ==
    [board_name_at_archive |-> a.board_name_at_archive, task |-> a.task,
     due_date |-> a.due_date, notes |-> a.notes,
     completed_on |-> a.completed_on, archived_on |-> a.archived_on]

\* mutant: the query has no WHERE user_id
MatchArchived_AllUsers(A, user_id, limit, offset) ==
    LET n == Cardinality(A)
        k == Min(limit, Max(0, n - offset))
    IN { [i \in 1..k |-> f[offset + i]] :
           f \in { g \in [1..n -> A] :
                     \A i, j \in 1..n :
                        i < j => g[i] # g[j] /\ g[i].archived_on >= g[j].archived_on } }

\* mutant: ORDER BY archived_on ascending
MatchArchived_Ascending(A, user_id, limit, offset) ==
    LET R == { a \in A : a.user_id = user_id }
        n == Cardinality(R)
        k == Min(limit, Max(0, n - offset))
    IN { [i \in 1..k |-> f[offset + i]] :
           f \in { g \in [1..n -> R] :
                     \A i, j \in 1..n :
                        i < j => g[i] # g[j] /\ g[i].archived_on <= g[j].archived_on } }

\* the archived_tasks rows behind a page of get_archived_tasks: the rows of
\* the user, ORDER BY archived_on DESC LIMIT limit OFFSET offset; rows that
\* tie come in any order
MatchArchived(A, user_id, limit, offset) ==
    LET R == { a \in A : a.user_id = user_id }
        n == Cardinality(R)
        k == Min(limit, Max(0, n - offset))
    IN { [i \in 1..k |-> f[offset + i]] :
           f \in { g \in [1..n -> R] :
                     \A i, j \in 1..n :
                        i < j => g[i] # g[j] /\ g[i].archived_on >= g[j].archived_on } }

\* ArchiveManager.get_archived_tasks_count
get_archived_tasks_count(A, user_id) ==
    Cardinality({ a \in A : a.user_id = user_id })

\* list_archived_tasks._list: limit and offset clamped, the page read
ListArchivedTasks(user_id, limit, offset) ==
    /\ pc = "idle"
    /\ \E page \in MatchArchived(archived_tasks, user_id,
                                  Max(1, limit), Max(0, offset)) :
          last' = [NoCall EXCEPT !.op = "list_archived", !.user_id = user_id,
                                 !.limit = limit, !.offset = offset,
                                 !.matched = page,
                                 !.listed = [i \in 1..Len(page) |->
                                               ListedRow(page[i])],
                                 !.ret = Len(page)]
    /\ pc' = "done"
    /\ UNCHANGED << config, others, boards, tasks, archived_tasks, task_seq,
                    archive_seq, used_task_ids, evicted, now, conn >>

\* ArchiveManager.get_archived_tasks_count as a request
CountArchivedTasks(user_id) ==
    /\ pc = "idle"
    /\ last' = [NoCall EXCEPT !.op = "count_archived", !.user_id = user_id,
                              !.ret = get_archived_tasks_count(archived_tasks,
                                                               user_id)]
    /\ pc' = "done"
    /\ UNCHANGED << config, others, boards, tasks, archived_tasks, task_seq,
                    archive_seq, used_task_ids, evicted, now, conn >>

\* ------------------------------------------------ the archive and its reader

\* one start-up configuration: archiving enabled, a ceiling of one row
InitReader == Init /\ ENABLE_ARCHIVE_ON_COMPLETE /\ MAX_TASKS_PER_BOARD = 1

NextReader ==
    \/ Tick /\ UNCHANGED requests
    \/ \E p \in Payloads : AddTask("b1", 1, p) /\ UNCHANGED requests
    \/ \E b \in BoardIds, u \in Users :
          ArchiveToFitOwn(b, u, MaxAdditional) /\ UNCHANGED requests
    \/ \E ids \in BulkRequests : BulkComplete("b1", 1, ids) /\ UNCHANGED requests
    \/ Commit /\ UNCHANGED requests
    \/ Rollback /\ UNCHANGED requests
    \/ \E u \in Users, l \in 0..MaxLimit, o \in -1..MaxOffset :
          ListArchivedTasks(u, l, o) /\ UNCHANGED requests
    \/ \E u \in Users : CountArchivedTasks(u) /\ UNCHANGED requests
    \/ Return /\ UNCHANGED requests

SpecReader == InitReader /\ [][NextReader]_vars

\* --------------------------------------------------- two users, all requests

\* user 1 has created a second board; each user's default board holds one
\* completed and one active task
InitUsers ==
    /\ ENABLE_ARCHIVE_ON_COMPLETE = TRUE
    /\ MAX_TASKS_PER_BOARD = 1
    /\ seed = 4
    /\ boards = { [id |-> "b1", user_id |-> 1, header |-> "Your Tasks"],
                  [id |-> "b2", user_id |-> 2, header |-> "Your Tasks"],
                  [id |-> BoardPool[1], user_id |-> 1, header |-> "n1"] }
    /\ tasks = { SeedTask(1, "b1", 1, TRUE), SeedTask(2, "b1", 1, FALSE),
                 [SeedTask(3, "b2", 1, TRUE) EXCEPT !.task = "z"],
                 [SeedTask(4, "b2", 1, FALSE) EXCEPT !.task = "z"] }
    /\ archived_tasks = {}
    /\ task_seq = seed
    /\ archive_seq = 0
    /\ used_task_ids = 1..seed
    /\ evicted = {}
    /\ now = 0
    /\ conn = NoConn
    /\ pc = "idle"
    /\ last = NoCall
    /\ board_seq = 1
    /\ requests = 0
    /\ sessions = [s \in Sessions |-> NoSession]

\* ids[i] < ids[j] for i < j
Ascending(ids) == \A i, j \in 1..Len(ids) : i < j => ids[i] < ids[j]

\* the request lists of bulk_delete_tasks
BulkDeleteRequests ==
    { ids \in UNION { [1..n -> TaskTargets] : n \in 1..MaxBulk } : Ascending(ids) }

\* a request that writes is served while the run has requests left
Served == requests < MaxRequests /\ requests' = requests + 1

NextUsers ==
    \/ \E u \in Users, p \in Payloads : AddTask("b1", u, p) /\ Served
    \/ \E b \in BoardTargets, u \in Users, i \in 0..MaxIdx :
          CompleteTask(b, u, i) /\ Served
    \/ \E b \in BoardTargets, u \in Users, i \in 0..MaxIdx :
          UncompleteTask(b, u, i) /\ Served
    \/ \E t \in TaskTargets, u \in Users, c \in Updates :
          UpdateTask(t, u, c) /\ Served
    \/ \E t \in TaskTargets, u \in Users : DeleteTask(t, u) /\ Served
    \/ \E b \in BoardTargets, u \in Users :
          \E ids \in BulkDeleteRequests : BulkDeleteTasks(b, u, ids) /\ Served
    \/ \E b \in BoardTargets, u \in Users, c \in BOOLEAN :
          \E ids \in Orderings({ t \in BoardTasks(tasks, b) : t.is_completed = c }) :
             ReorderTasks(b, u, ids, c) /\ Served
    \/ \E t \in TaskTargets, b \in BoardTargets, u \in Users :
          MoveTask(t, b, u) /\ Served
    \/ \E b \in BoardTargets, u \in Users : UpdateBoardName(b, u, "n2") /\ Served
    \/ \E b \in BoardTargets, u \in Users : DeleteBoard(b, u) /\ Served
    \/ \E b \in BoardTargets, u \in Users : ArchiveOverflowOwn(b, u) /\ Served
    \/ \E b \in BoardTargets, u \in Users :
          ArchiveToFitOwn(b, u, MaxAdditional) /\ Served
    \/ \E b \in BoardTargets, u \in Users :
          \E ids \in BulkRequests : BulkComplete(b, u, ids) /\ Served
    \/ Commit /\ UNCHANGED requests
    \/ Rollback /\ UNCHANGED requests
    \/ \E a \in 1..archive_seq, u \in Users : Restore(a, u) /\ Served
    \/ \E u \in Users, l \in 0..MaxLimit, o \in -1..MaxOffset :
          ListArchivedTasks(u, l, o) /\ UNCHANGED requests
    \/ \E u \in Users : CountArchivedTasks(u) /\ UNCHANGED requests
    \/ Return /\ UNCHANGED requests

SpecUsers == InitUsers /\ [][NextUsers]_vars

\* ------------------------------------------------- a board at the active cap

\* board b1 starts with ACTIVE_CAP active tasks and its completed ones
InitAtCap == Init /\ Cardinality(ActiveTasks(tasks, "b1")) = ACTIVE_CAP

NextAtCap ==
    \/ \E b \in BoardIds, u \in Users, i \in 0..MaxIdx :
          CompleteTask(b, u, i) /\ Served
    \/ \E b \in BoardIds, u \in Users, i \in 0..MaxIdx :
          UncompleteTask(b, u, i) /\ Served
    \/ \E b \in BoardIds, u \in Users, i \in 0..MaxIdx :
          WebUncomplete(b, u, i) /\ Served
    \/ Return /\ UNCHANGED requests

SpecAtCap == InitAtCap /\ [][NextAtCap]_vars

\* ================================================================ claims

\* the tables as the request in progress sees them: its open transaction's
\* while it has one, the committed ones otherwise
PostTasks == IF pc \in {"returned", "raised"} THEN conn.tasks ELSE tasks
PostArchived ==
    IF pc \in {"returned", "raised"} THEN conn.archived_tasks ELSE archived_tasks

\* the last request ran archive_overflow (directly, or as the archiving step
\* of bulk_complete_tasks), the call returned and was not rolled back
OverflowReturned ==
    /\ last.op \in {"archive_overflow", "bulk_complete"}
    /\ last.err = ""
    /\ last.outcome \in {"open", "committed"}

\* what that call found: N total and K completed rows on its board
CallN == Cardinality(BoardTasks(last.call_tasks, last.board_id))
CallK == Cardinality(CompletedTasks(last.call_tasks, last.board_id))
CallOwned == OwnedBoard(boards, last.board_id, last.user_id) # {}

\* the rows the call took out of tasks and the rows it put into archived_tasks
Removed == last.call_tasks \ PostTasks
Added == PostArchived \ last.call_archived

\* C1: exact eviction count. With archiving enabled, on a board (owned by the
\* caller) with N rows, ceiling C < N and at least N - C completed rows,
\* archive_overflow returns N - C, moves exactly N - C rows from tasks to
\* archived_tasks, and the board then holds C rows.
C1_ExactEvictionCount ==
    ( /\ OverflowReturned
      /\ ENABLE_ARCHIVE_ON_COMPLETE
      /\ CallOwned
      /\ CallN > MAX_TASKS_PER_BOARD
      /\ CallK >= CallN - MAX_TASKS_PER_BOARD )
    => /\ last.ret = CallN - MAX_TASKS_PER_BOARD
       /\ PostTasks \subseteq last.call_tasks
       /\ last.call_archived \subseteq PostArchived
       /\ Cardinality(Removed) = CallN - MAX_TASKS_PER_BOARD
       /\ Cardinality(Added) = CallN - MAX_TASKS_PER_BOARD
       /\ {a.original_task_id : a \in Added} = {t.id : t \in Removed}
       /\ Cardinality(BoardTasks(PostTasks, last.board_id)) = MAX_TASKS_PER_BOARD

\* a committed archive_overflow run that had to evict 2 of 3 completed rows
C1_Witness ==
    /\ OverflowReturned
    /\ last.outcome = "committed"
    /\ pc = "done"
    /\ CallOwned
    /\ CallN - MAX_TASKS_PER_BOARD = 2
    /\ CallK = 3
    /\ last.ret = 2

\* C2: starvation safety. When the overflow N - C is positive but the board
\* holds only K < N - C completed rows, archive_overflow archives exactly
\* those K rows, returns K, and every active row of the board is still in
\* tasks, unchanged.
C2_StarvationSafety ==
    ( /\ OverflowReturned
      /\ ENABLE_ARCHIVE_ON_COMPLETE
      /\ CallOwned
      /\ CallN - MAX_TASKS_PER_BOARD > 0
      /\ CallK < CallN - MAX_TASKS_PER_BOARD )
    => /\ last.ret = CallK
       /\ Removed = CompletedTasks(last.call_tasks, last.board_id)
       /\ Cardinality(Added) = CallK
       /\ {a.original_task_id : a \in Added} = {t.id : t \in Removed}
       /\ ActiveTasks(last.call_tasks, last.board_id) \subseteq PostTasks

\* two active rows and one completed row over a ceiling of 1: one row archived
C2_Witness ==
    /\ OverflowReturned
    /\ pc = "done"
    /\ CallOwned
    /\ CallN - MAX_TASKS_PER_BOARD = 2
    /\ CallK = 1
    /\ last.ret = 1
    /\ Cardinality(ActiveTasks(tasks, last.board_id)) = 2

\* the order the claim states: null completion date first, then ascending
\* completion date, then ascending creation time
EvictedEarlier(s, t) ==
    LET rank(x) == IF x.completed_on = NULL THEN 0 ELSE 1
    IN \/ rank(s) < rank(t)
       \/ rank(s) = rank(t) /\ s.completed_on < t.completed_on
       \/ rank(s) = rank(t) /\ s.completed_on = t.completed_on
                            /\ s.created_at < t.created_at

C4_NoOpBelowCeiling ==
    (OverflowReturned /\ CallN <= MAX_TASKS_PER_BOARD)
    => /\ last.ret = 0
       /\ PostTasks = last.call_tasks
       /\ PostArchived = last.call_archived

\* a board exactly at the ceiling that holds a completed row
C4_Witness ==
    /\ OverflowReturned
    /\ last.op = "archive_overflow"
    /\ pc = "done"
    /\ ENABLE_ARCHIVE_ON_COMPLETE
    /\ CallOwned
    /\ CallN = MAX_TASKS_PER_BOARD
    /\ CallK >= 1
    /\ tasks = last.pre_tasks

\* C5: flag gate. With archiving disabled archive_overflow and archive_to_fit
\* return 0 and change neither table, whatever the board holds and whatever
\* required_additional is.
C5_FlagGate ==
    ( /\ ~ENABLE_ARCHIVE_ON_COMPLETE
      /\ last.op \in {"archive_overflow", "archive_to_fit"} )
    => /\ last.ret = 0
       /\ PostTasks = last.pre_tasks
       /\ PostArchived = last.pre_archived
       /\ tasks = last.pre_tasks
       /\ archived_tasks = last.pre_archived

\* archive_to_fit on an owned board three times over the ceiling that holds
\* completed rows
C5_Witness ==
    /\ ~ENABLE_ARCHIVE_ON_COMPLETE
    /\ last.op = "archive_to_fit"
    /\ last.additional = 1
    /\ pc = "done"
    /\ CallOwned
    /\ CallN >= 3 * MAX_TASKS_PER_BOARD
    /\ CallK >= 1
    /\ last.ret = 0

\* C6: transactional atomicity. When the storage layer raises at the insert
\* or delete of the j-th of k candidates inside a caller-owned transaction,
\* the error comes out of archive_overflow, nothing of the run is committed,
\* and after the caller's rollback every candidate is still in tasks and
\* none has an archived_tasks row.
C6_TransactionalAtomicity ==
    (last.with_conn /\ last.fail.j > 0)
    => /\ last.err = "storage"
       /\ pc \in {"raised", "done"}
       /\ last.outcome # "committed"
       /\ pc = "done" =>
            /\ last.outcome = "rolled_back"
            /\ \A i \in 1..Len(last.rows) :
                  /\ \E t \in tasks : t.id = last.rows[i].id
                  /\ ~\E a \in archived_tasks :
                        a.original_task_id = last.rows[i].id

\* rolled back after the delete of the 2nd of 2 candidates raised
C6_Witness ==
    /\ last.with_conn
    /\ Len(last.rows) = 2
    /\ last.fail = [j |-> 2, step |-> "delete"]
    /\ pc = "done"
    /\ last.outcome = "rolled_back"

\* C7: bulk completion is all-or-nothing with its archiving step. When
\* archive_overflow raises inside bulk_complete_tasks after tasks were marked
\* complete, the transaction is rolled back: every requested task that was
\* active is active again with a null completion date, and archived_tasks has
\* no new row.
C7_BulkAllOrNothing ==
    ( /\ last.op = "bulk_complete"
      /\ last.fail.j > 0
      /\ last.completed > 0
      /\ pc = "done" )
    => /\ last.outcome = "rolled_back"
       /\ \A i \in 1..Len(last.ids) :
             \A t \in ActiveTasks(last.pre_tasks, last.board_id) :
                t.id = last.ids[i] =>
                   \E x \in tasks : /\ x.id = t.id
                                    /\ ~x.is_completed
                                    /\ x.completed_on = NULL
       /\ archived_tasks = last.pre_archived

\* two tasks marked complete, then the first insert of the archiving step raised
C7_Witness ==
    /\ last.op = "bulk_complete"
    /\ last.completed = 2
    /\ last.fail = [j |-> 1, step |-> "insert"]
    /\ pc = "done"
    /\ last.outcome = "rolled_back"

\* C8: the engine neither commits nor closes a connection the caller passed.
\* After archive_overflow / archive_to_fit returned into the caller's open
\* transaction the committed tables are as before the call; they show the
\* moved rows once the caller commits, and are as before the call after the
\* caller rolls back.
C8_CallerControlsCommit ==
    (last.with_conn /\ last.op \in {"archive_overflow", "archive_to_fit"})
    => /\ pc \in {"returned", "raised"} =>
            /\ conn.open
            /\ tasks = last.pre_tasks
            /\ archived_tasks = last.pre_archived
       /\ (pc = "done" /\ last.outcome = "rolled_back") =>
            /\ tasks = last.pre_tasks
            /\ archived_tasks = last.pre_archived
       /\ (pc = "done" /\ last.outcome = "committed") =>
            /\ tasks \subseteq last.pre_tasks
            /\ last.pre_archived \subseteq archived_tasks
            /\ Cardinality(last.pre_tasks \ tasks) = last.ret
            /\ Cardinality(archived_tasks \ last.pre_archived) = last.ret

\* archive_to_fit moved a row inside the caller's transaction, the caller
\* rolled back
C8_Witness ==
    /\ last.with_conn
    /\ last.op = "archive_to_fit"
    /\ last.fail.j = 0
    /\ last.ret >= 1
    /\ pc = "done"
    /\ last.outcome = "rolled_back"

\* C9: round-trip restore. Restoring the archive row of an archived task
\* yields one new active task on the same board with the task text, due date
\* and notes of the original, completed_on null and an id that differs from
\* the original's and from every id used before; the archive row is gone.
C9_RoundTripRestore ==
    (last.op = "restore" /\ last.err = "")
    => \E a \in last.pre_archived : \E orig \in last.origin :
          \E new \in tasks :
             /\ a.id = last.archived_task_id
             /\ orig.id = a.original_task_id
             /\ new.id = last.ret
             /\ tasks = last.pre_tasks \cup {new}
             /\ new \notin last.pre_tasks
             /\ new.board_id = orig.board_id
             /\ new.task = orig.task
             /\ new.due_date = orig.due_date
             /\ new.notes = orig.notes
             /\ ~new.is_completed
             /\ new.completed_on = NULL
             /\ new.id # orig.id
             /\ new.id \notin last.pre_used
             /\ archived_tasks = last.pre_archived \ {a}
             /\ ~\E x \in archived_tasks : x.id = a.id

\* a task that was added, completed, archived and then restored
C9_Witness ==
    /\ last.op = "restore"
    /\ last.err = ""
    /\ pc = "done"
    /\ \E orig \in last.origin :
          /\ orig.notes = "n"
          /\ orig.completed_on # NULL
          /\ \E new \in tasks : new.id = last.ret /\ new.notes = "n"

\* C10: restore capacity check, as claimed: for every configured
\* MAX_TASKS_PER_BOARD, restoring onto a board that already has 10 active
\* tasks fails with a capacity error and changes neither table.
C10_RestoreBlockedAtTenActive ==
    ( /\ last.op = "restore"
      /\ last.err \notin {"not_found", "no_board"}
      /\ Cardinality(ActiveTasks(last.pre_tasks, last.board_id)) = ACTIVE_CAP )
    => /\ last.err = "capacity"
       /\ tasks = last.pre_tasks
       /\ archived_tasks = last.pre_archived

\* C14: ownership failure, as claimed: archive_overflow called for a board
\* that user_id does not own raises to the caller instead of returning a
\* count, whatever the board holds (archiving enabled).
C14_UnownedBoardRaises ==
    ( /\ last.op = "archive_overflow"
      /\ ENABLE_ARCHIVE_ON_COMPLETE
      /\ ~CallOwned )
    => last.err # ""

\* C16: soft ceiling after completion. With archiving enabled, a successful
\* bulk_complete_tasks commits nothing before its single commit, and after
\* that commit the board holds at most MAX_TASKS_PER_BOARD rows or no
\* completed row; every task it marked is then completed or archived, and
\* archived_tasks has exactly the rows the archiving step reported.
C16_SoftCeilingAfterCompletion ==
    ( /\ last.op = "bulk_complete"
      /\ ENABLE_ARCHIVE_ON_COMPLETE
      /\ last.err = "" )
    => /\ pc = "returned" =>
            /\ tasks = last.pre_tasks
            /\ archived_tasks = last.pre_archived
       /\ (pc = "done" /\ last.outcome = "committed") =>
            /\ \/ Cardinality(BoardTasks(tasks, last.board_id))
                     <= MAX_TASKS_PER_BOARD
               \/ CompletedTasks(tasks, last.board_id) = {}
            /\ \A i \in 1..Len(last.ids) :
                  \A t \in ActiveTasks(last.pre_tasks, last.board_id) :
                     t.id = last.ids[i] =>
                        \/ \E x \in tasks : x.id = t.id /\ x.is_completed
                        \/ \E a \in archived_tasks : a.original_task_id = t.id
            /\ last.pre_archived \subseteq archived_tasks
            /\ Cardinality(archived_tasks \ last.pre_archived) = last.ret

\* two tasks completed in one request, one row archived in the same commit
C16_Witness ==
    /\ last.op = "bulk_complete"
    /\ ENABLE_ARCHIVE_ON_COMPLETE
    /\ pc = "done"
    /\ last.outcome = "committed"
    /\ last.completed = 2
    /\ last.ret >= 1
    /\ CompletedTasks(tasks, last.board_id) # {}

\* archive_to_fit returned on a board the caller owns, archiving enabled
FitReturned ==
    /\ last.op = "archive_to_fit"
    /\ ENABLE_ARCHIVE_ON_COMPLETE
    /\ CallOwned
    /\ last.err = ""
    /\ last.outcome \in {"open", "committed"}

\* what an archive_to_fit call must have done when its overflow is `overflow`
FitArchived(overflow) ==
    /\ last.ret = IF overflow > 0 THEN Min(overflow, CallK) ELSE 0
    /\ Removed \subseteq CompletedTasks(last.call_tasks, last.board_id)
    /\ Cardinality(Removed) = last.ret
    /\ Cardinality(Added) = last.ret

\* C17, as claimed: archive_to_fit computes its overflow as
\* total + required_additional - ceiling for every integer
\* required_additional, negative values included.
C17_OverflowUnclamped ==
    FitReturned =>
       FitArchived(CallN + last.additional - MAX_TASKS_PER_BOARD)

\* C17, amended: archive_to_fit computes its overflow as
\* total + max(0, required_additional) - ceiling, archives
\* min(overflow, completed rows) rows when that is positive and nothing
\* otherwise; with required_additional = 0 it has the outcomes of
\* archive_overflow on every board.
C17_OverflowClamped ==
    /\ FitReturned =>
          FitArchived(CallN + Max(0, last.additional) - MAX_TASKS_PER_BOARD)
    /\ pc = "idle" =>
          \A b \in BoardIds, u \in Users :
             ArchiveToFit(tasks, archived_tasks, boards, archive_seq, b, u, 0, now)
               = ArchiveOverflowTasks(tasks, archived_tasks, boards, archive_seq,
                                      b, u, now)

\* archive_to_fit with required_additional = -1 on a board one row over the
\* ceiling: one row archived
C17_Witness ==
    /\ FitReturned
    /\ pc = "done"
    /\ last.additional = -1
    /\ CallN = MAX_TASKS_PER_BOARD + 1
    /\ CallK >= 1
    /\ last.ret = 1

\* the last request was a board creation / a board deletion
CreateCalled == last.op \in {"create_board", "add_board"}
DeleteCalled == last.op \in {"delete_board", "db_delete_board", "remove_board"}

\* C20: board count bounds. After any sequence of create-board and
\* delete-board requests every user owns between 1 and 4 boards; a create
\* by a user with 4 boards and a delete by a user with 1 board write nothing:
\* boards and tasks are as before the request.
C20_BoardCountBounds ==
    /\ \A u \in Users :
          /\ count_user_boards(boards, u) >= 1
          /\ count_user_boards(boards, u) <= 4
    /\ ( /\ CreateCalled
         /\ count_user_boards(last.pre_boards, last.user_id) = 4 )
       => /\ last.ret = 0
          /\ last.op = "create_board" => last.err # ""
          /\ boards = last.pre_boards
          /\ tasks = last.pre_tasks
    /\ ( /\ DeleteCalled
         /\ count_user_boards(last.pre_boards, last.user_id) = 1 )
       => /\ last.ret = 0
          /\ last.op = "delete_board" => last.err # ""
          /\ boards = last.pre_boards
          /\ tasks = last.pre_tasks

\* a user who went up to 4 boards, was refused a fifth, went down to 1 board
\* (the default one deleted, its tasks with it) and is refused the deletion
\* of the last one
C20_Witness ==
    /\ last.op = "delete_board"
    /\ last.err = "last_board"
    /\ pc = "done"
    /\ board_seq >= 3
    /\ OwnedBoard(boards, "b1", 1) = {}
    /\ BoardTasks(tasks, "b1") = {}
    /\ OwnedBoard(boards, last.board_id, last.user_id) # {}

\* a create refused at 4 boards
C20_CreateRefused ==
    /\ last.op = "create_board"
    /\ last.err = "board_limit"
    /\ count_user_boards(boards, last.user_id) = 4

\* C15, as claimed: restore and move-between-boards run archiving in the
\* transaction of the mutation. With archiving enabled, in the committed
\* state right after a successful restore or move the target board holds at
\* most MAX_TASKS_PER_BOARD rows or no completed row.
C15_ArchivingWithRestoreAndMove ==
    ( /\ last.op \in {"restore", "move"}
      /\ ENABLE_ARCHIVE_ON_COMPLETE
      /\ last.err = ""
      /\ last.outcome = "committed" )
    => \/ Cardinality(BoardTasks(tasks, last.board_id)) <= MAX_TASKS_PER_BOARD
       \/ CompletedTasks(tasks, last.board_id) = {}

\* who owned the board of the task row archive row a was made from, when it
\* was archived
ArchivedFrom(a) == UNION { e.owners : e \in {x \in evicted : x.archive_id = a.id} }

\* C18: user isolation of the archive reader. Every row a page of
\* get_archived_tasks(A) returns is the listing of an archived_tasks row
\* that was archived from a board A owned then, and
\* get_archived_tasks_count(A) counts exactly the rows archived from boards
\* of A: nothing archived from a board of another user shows.
C18_ArchiveReaderIsolation ==
    /\ last.op = "list_archived" =>
          /\ Len(last.listed) = Len(last.matched)
          /\ \A i \in 1..Len(last.matched) :
                /\ last.matched[i] \in archived_tasks
                /\ last.listed[i] = ListedRow(last.matched[i])
                /\ ArchivedFrom(last.matched[i]) = {last.user_id}
    /\ last.op = "count_archived" =>
          last.ret = Cardinality({ a \in archived_tasks :
                                     ArchivedFrom(a) = {last.user_id} })

\* user 1 reads a page with a row on it while user 2 has an archived row too
C18_Witness ==
    /\ last.op = "list_archived"
    /\ last.user_id = 1
    /\ Len(last.listed) >= 1
    /\ \E a \in archived_tasks : a.user_id = 2 /\ ArchivedFrom(a) = {2}
    /\ pc = "done"

\* the rows of user u: the boards u owns, the tasks on them, the archive rows
\* stamped with u
RowsOf(u, B, T, A) ==
    [boards |-> {b \in B : b.user_id = u},
     tasks |-> TasksOfUser(T, B, u),
     archived |-> {a \in A : a.user_id = u}]

\* C19: cross-user write isolation. No step of a request made with user A's
\* id changes the boards, tasks or archive rows of another user.
C19_CrossUserWriteIsolation ==
    [][ \A u \in Users :
          (last'.op # "none" /\ last'.user_id # u)
          => RowsOf(u, boards', tasks', archived_tasks')
               = RowsOf(u, boards, tasks, archived_tasks) ]_vars

\* user 1 asked for the deletion of a task of user 2 and was refused
C19_Witness ==
    /\ last.op = "delete_task"
    /\ last.user_id = 1
    /\ last.err = "not_found"
    /\ pc = "done"
    /\ \E t \in TasksOfUser(tasks, boards, 2) : t.id = last.task_id

\* ------------------------------------------ worker threads, READ COMMITTED
\* Each request runs on a worker thread with a connection of its own
\* (autocommit off, the server's default isolation level): a statement reads
\* the committed tables and the transaction's own writes; a write to a row
\* another open transaction has written waits for that transaction to end.
\* A handler is split where another thread's commit can come between its
\* reads and its writes.

\* the user both worker threads serve requests of
SessionUser == 1

\* the task ids the requests name: the oldest completed row of b1, an active
\* row of b1 and the row of the second board
RequestTasks == {1, 3, ACTIVE_CAP + 2}

\* the request lists of bulk_complete_tasks
RequestLists == { << 3 >>, << 4 >> }

\* what no worker thread writes
WorkerFrame == << config, boards, evicted, conn, pc, board_seq, now >>

\* board b1 of SessionUser holds two completed rows and ACTIVE_CAP - 1
\* active ones, one row over the ceiling; the user's second board holds one
\* active row; the completed rows were completed on an earlier day
InitConcurrent ==
    /\ ENABLE_ARCHIVE_ON_COMPLETE = TRUE
    /\ MAX_TASKS_PER_BOARD = 10
    /\ seed = ACTIVE_CAP + 2
    /\ boards = { [id |-> "b1", user_id |-> SessionUser, header |-> "Your Tasks"],
                  [id |-> BoardPool[1], user_id |-> SessionUser, header |-> "n1"] }
    /\ tasks = { SeedTask(i, "b1", i, TRUE) : i \in 1..2 } \cup
               { SeedTask(i, "b1", i - 2, FALSE) : i \in 3..(ACTIVE_CAP + 1) } \cup
               { SeedTask(ACTIVE_CAP + 2, BoardPool[1], 1, FALSE) }
    /\ archived_tasks = {}
    /\ task_seq = seed
    /\ archive_seq = 0
    /\ used_task_ids = 1..seed
    /\ evicted = {}
    /\ now = TicksPerDay
    /\ conn = NoConn
    /\ pc = "idle"
    /\ last = NoCall
    /\ board_seq = 1
    /\ requests = 0
    /\ sessions = [s \in Sessions |-> NoSession]

\* another open transaction has written the row with this id
Locked(s, task_id) ==
    \E o \in Sessions \ {s} : \E m \in sessions[o].marked : m.id = task_id

\* the tasks table as the statements of thread s read it: the committed rows,
\* with the rows its open transaction has updated
View(s) ==
    { IF \E m \in sessions[s].marked : m.id = t.id
      THEN CHOOSE m \in sessions[s].marked : m.id = t.id
      ELSE t : t \in tasks }

\* the handler is done: its connection is closed, its result recorded
Finish(s, call) ==
    /\ sessions' = [sessions EXCEPT ![s] = NoSession]
    /\ last' = call

\* the handler goes on to its writes
Continue(s, session) ==
    /\ sessions' = [sessions EXCEPT ![s] = session]
    /\ UNCHANGED last

\* Database.add_task, up to the check of the active count
AddCheck(s, board_id) ==
    /\ sessions[s].pc = "idle"
    /\ LET active_count == Cardinality(ActiveTasks(tasks, board_id))
       IN IF OwnedBoard(boards, board_id, SessionUser) # {} /\ active_count < ACTIVE_CAP
          THEN Continue(s, [NoSession EXCEPT !.pc = "add_insert", !.op = "add_task",
                                             !.board_id = board_id])
          ELSE Finish(s, TaskCall("add_task", SessionUser, board_id, 0))
    /\ UNCHANGED << WorkerFrame, tasks, archived_tasks, task_seq, archive_seq,
                    used_task_ids >>

\* Database.add_task, from the read of the next position to the commit
AddInsert(s, p) ==
    /\ sessions[s].pc = "add_insert"
    /\ LET board_id == sessions[s].board_id
           position == MaxPosition(ActiveTasks(tasks, board_id)) + 1
       IN /\ tasks' = tasks \cup
                { [id |-> task_seq + 1, board_id |-> board_id,
                   task |-> p.task, due_date |-> p.due_date,
                   notes |-> p.notes, is_completed |-> FALSE,
                   completed_on |-> NULL, position |-> position,
                   created_at |-> now] }
          /\ Finish(s, [TaskCall("add_task", SessionUser, board_id, task_seq + 1)
                           EXCEPT !.ret = 1, !.outcome = "committed"])
    /\ task_seq' = task_seq + 1
    /\ used_task_ids' = used_task_ids \cup {task_seq + 1}
    /\ UNCHANGED << WorkerFrame, archived_tasks, archive_seq >>

\* Database.uncomplete_task, up to the SELECT of the row at the index
UncompleteCheck(s, board_id, task_idx) ==
    /\ sessions[s].pc = "idle"
    /\ LET active_count == Cardinality(ActiveTasks(tasks, board_id))
           section == CompletedTasks(TasksOfUser(tasks, boards, SessionUser), board_id)
           found == RowsAtOffset(section,
                                 [x, t \in section |-> ByCompletionDesc(x, t)],
                                 task_idx)
       IN IF ~(active_count < ACTIVE_CAP) \/ found = {}
          THEN Finish(s, [TaskCall("uncomplete_task", SessionUser, board_id, 0)
                             EXCEPT !.outcome = "rolled_back"])
          ELSE \E task \in found :
                  Continue(s, [NoSession EXCEPT !.pc = "uncomplete_update",
                                                !.op = "uncomplete_task",
                                                !.board_id = board_id,
                                                !.task_id = task.id])
    /\ UNCHANGED << WorkerFrame, tasks, archived_tasks, task_seq, archive_seq,
                    used_task_ids >>

\* Database.uncomplete_task: the UPDATE ... WHERE id and the commit
UncompleteUpdate(s) ==
    /\ sessions[s].pc = "uncomplete_update"
    /\ ~Locked(s, sessions[s].task_id)
    /\ tasks' = { IF t.id = sessions[s].task_id
                  THEN [t EXCEPT !.is_completed = FALSE, !.completed_on = NULL]
                  ELSE t : t \in tasks }
    /\ Finish(s, [TaskCall("uncomplete_task", SessionUser, sessions[s].board_id,
                           sessions[s].task_id)
                     EXCEPT !.ret = 1, !.outcome = "committed"])
    /\ UNCHANGED << WorkerFrame, archived_tasks, task_seq, archive_seq,
                    used_task_ids >>

\* move_task_between_boards._move, up to the check of the target's active count
MoveCheck(s, task_id, target_board_id) ==
    /\ sessions[s].pc = "idle"
    /\ LET call == TaskCall("move", SessionUser, target_board_id, task_id)
           found == { t \in TasksOfUser(tasks, boards, SessionUser) : t.id = task_id }
           row == CHOOSE t \in found : TRUE
           count == Cardinality(ActiveTasks(tasks, target_board_id))
       IN IF found = {}
          THEN Finish(s, [call EXCEPT !.err = "not_found", !.outcome = "rolled_back"])
          ELSE IF row.board_id = target_board_id
          THEN Finish(s, [call EXCEPT !.outcome = "unchanged"])
          ELSE IF OwnedBoard(boards, target_board_id, SessionUser) = {}
          THEN Finish(s, [call EXCEPT !.err = "no_board", !.outcome = "rolled_back"])
          ELSE IF ~row.is_completed /\ count >= ACTIVE_CAP
          THEN Finish(s, [call EXCEPT !.err = "capacity", !.outcome = "rolled_back"])
          ELSE Continue(s, [NoSession EXCEPT !.pc = "move_update", !.op = "move",
                                             !.board_id = target_board_id,
                                             !.task_id = task_id,
                                             !.is_completed = row.is_completed])
    /\ UNCHANGED << WorkerFrame, tasks, archived_tasks, task_seq, archive_seq,
                    used_task_ids >>

\* _move, from the read of the next position to the commit
MoveUpdate(s) ==
    /\ sessions[s].pc = "move_update"
    /\ ~Locked(s, sessions[s].task_id)
    /\ LET target_board_id == sessions[s].board_id
           next_position ==
               MaxPosition({ t \in BoardTasks(tasks, target_board_id) :
                               t.is_completed = sessions[s].is_completed }) + 1
       IN /\ tasks' = { IF t.id = sessions[s].task_id
                        THEN [t EXCEPT !.board_id = target_board_id,
                                       !.position = next_position]
                        ELSE t : t \in tasks }
          /\ Finish(s, [TaskCall("move", SessionUser, target_board_id,
                                 sessions[s].task_id)
                           EXCEPT !.ret = 1, !.outcome = "committed"])
    /\ UNCHANGED << WorkerFrame, archived_tasks, task_seq, archive_seq,
                    used_task_ids >>

\* restore_archived_task._restore, up to the capacity check
RestoreCheck(s, archived_task_id) ==
    /\ sessions[s].pc = "idle"
    /\ LET found == { a \in archived_tasks :
                        a.id = archived_task_id /\ a.user_id = SessionUser }
           archived == CHOOSE a \in found : TRUE
           call == [NoCall EXCEPT !.op = "restore", !.user_id = SessionUser,
                                  !.archived_task_id = archived_task_id]
       IN IF found = {}
          THEN Finish(s, [call EXCEPT !.err = "not_found", !.outcome = "rolled_back"])
          ELSE IF OwnedBoard(boards, archived.board_id, SessionUser) = {}
          THEN Finish(s, [call EXCEPT !.err = "no_board", !.outcome = "rolled_back"])
          ELSE IF Cardinality(ActiveTasks(tasks, archived.board_id))
                     >= MAX_TASKS_PER_BOARD
          THEN Finish(s, [call EXCEPT !.err = "capacity", !.outcome = "rolled_back",
                                      !.board_id = archived.board_id])
          ELSE Continue(s, [NoSession EXCEPT !.pc = "restore_insert",
                                             !.op = "restore",
                                             !.board_id = archived.board_id,
                                             !.rows = << archived >>])
    /\ UNCHANGED << WorkerFrame, tasks, archived_tasks, task_seq, archive_seq,
                    used_task_ids >>

\* _restore, from the read of the next position to the commit
RestoreInsert(s) ==
    /\ sessions[s].pc = "restore_insert"
    /\ LET archived == sessions[s].rows[1]
           next_position == MaxPosition(ActiveTasks(tasks, archived.board_id)) + 1
           new_task == RestoredTask(archived, task_seq + 1, next_position, now)
       IN /\ tasks' = tasks \cup {new_task}
          /\ archived_tasks' = {a \in archived_tasks : a.id # archived.id}
          /\ Finish(s, [NoCall EXCEPT !.op = "restore", !.user_id = SessionUser,
                                      !.archived_task_id = archived.id,
                                      !.board_id = archived.board_id,
                                      !.ret = new_task.id,
                                      !.outcome = "committed"])
    /\ task_seq' = task_seq + 1
    /\ used_task_ids' = used_task_ids \cup {task_seq + 1}
    /\ UNCHANGED << WorkerFrame, archive_seq >>

\* the record of a bulk_complete_tasks request of thread s
BulkCall(s) ==
    [NoCall EXCEPT !.op = "bulk_complete", !.user_id = SessionUser,
                   !.board_id = sessions[s].board_id,
                   !.completed = sessions[s].completed,
                   !.skipped = sessions[s].skipped,
                   !.with_conn = TRUE,
                   !.pre_tasks = tasks, !.pre_archived = archived_tasks,
                   !.call_tasks = View(s), !.call_archived = archived_tasks]

\* bulk_complete_tasks._bulk: the ownership check and the marking loop; the
\* updated rows stay uncommitted
BulkMarkStep(s, board_id, ids) ==
    /\ sessions[s].pc = "idle"
    /\ IF OwnedBoard(boards, board_id, SessionUser) = {}
       THEN Finish(s, [NoCall EXCEPT !.op = "bulk_complete",
                                     !.user_id = SessionUser,
                                     !.board_id = board_id, !.ids = ids,
                                     !.err = "not_found",
                                     !.outcome = "rolled_back"])
       ELSE LET m == BulkMark(tasks, boards, board_id, SessionUser, ids, DateOf(now))
                marked == m.tasks \ tasks
            IN /\ \A r \in marked : ~Locked(s, r.id)
               /\ Continue(s, [NoSession EXCEPT !.pc = "bulk_engine",
                                                !.op = "bulk_complete",
                                                !.board_id = board_id,
                                                !.marked = marked,
                                                !.completed = m.completed,
                                                !.skipped = m.skipped])
    /\ UNCHANGED << WorkerFrame, tasks, archived_tasks, task_seq, archive_seq,
                    used_task_ids >>

\* archive_overflow_tasks on the handler's connection, up to the SELECT of
\* _archive_oldest_completed; when the engine has nothing to archive the
\* handler commits its marks
EngineSelect(s) ==
    /\ sessions[s].pc = "bulk_engine"
    /\ LET board_id == sessions[s].board_id
           total_tasks == Cardinality(BoardTasks(View(s), board_id))
           overflow_count == total_tasks - MAX_TASKS_PER_BOARD
           board_result == OwnedBoard(boards, board_id, SessionUser)
           candidates == SelectOldestCompleted(View(s), board_id, overflow_count)
       IN IF \/ ~should_archive
             \/ total_tasks <= MAX_TASKS_PER_BOARD
             \/ board_result = {}
             \/ candidates = { << >> }
          THEN /\ tasks' = View(s)
               /\ Finish(s, [BulkCall(s) EXCEPT !.outcome = "committed"])
          ELSE /\ \E rows \in candidates :
                     Continue(s, [sessions[s] EXCEPT
                        !.pc = "bulk_archive",
                        !.board_name = (CHOOSE r \in board_result : TRUE).header,
                        !.rows = rows])
               /\ UNCHANGED tasks
    /\ UNCHANGED << WorkerFrame, archived_tasks, task_seq, archive_seq,
                    used_task_ids >>

\* the insert/delete loop of _archive_oldest_completed over the rows selected,
\* and the handler's commit: each INSERT writes the row as it was selected,
\* each DELETE ... WHERE id removes the row with that id if there still is one
EngineArchive(s) ==
    /\ sessions[s].pc = "bulk_archive"
    /\ \A i \in 1..Len(sessions[s].rows) : ~Locked(s, sessions[s].rows[i].id)
    /\ LET r == ArchiveOldestCompleted(View(s), archived_tasks, archive_seq,
                                       sessions[s].rows, sessions[s].board_id,
                                       SessionUser, sessions[s].board_name,
                                       NoFail, now)
       IN /\ tasks' = r.tasks
          /\ archived_tasks' = r.archived_tasks
          /\ archive_seq' = r.archive_seq
          /\ Finish(s, [BulkCall(s) EXCEPT !.ret = r.ret, !.rows = r.rows,
                                           !.outcome = "committed"])
    /\ UNCHANGED << WorkerFrame, task_seq, used_task_ids >>

NextConcurrent ==
    \/ \E s \in Sessions : AddCheck(s, "b1") /\ Served
    \/ \E s \in Sessions, p \in Payloads : AddInsert(s, p) /\ UNCHANGED requests
    \/ \E s \in Sessions, i \in 0..MaxIdx : UncompleteCheck(s, "b1", i) /\ Served
    \/ \E s \in Sessions : UncompleteUpdate(s) /\ UNCHANGED requests
    \/ \E s \in Sessions, t \in RequestTasks, b \in {x.id : x \in boards} :
          MoveCheck(s, t, b) /\ Served
    \/ \E s \in Sessions : MoveUpdate(s) /\ UNCHANGED requests
    \/ \E s \in Sessions, a \in 1..archive_seq : RestoreCheck(s, a) /\ Served
    \/ \E s \in Sessions : RestoreInsert(s) /\ UNCHANGED requests
    \/ \E s \in Sessions, ids \in RequestLists : BulkMarkStep(s, "b1", ids) /\ Served
    \/ \E s \in Sessions : EngineSelect(s) /\ UNCHANGED requests
    \/ \E s \in Sessions : EngineArchive(s) /\ UNCHANGED requests

SpecConcurrent == InitConcurrent /\ [][NextConcurrent]_vars

\* C11, as claimed: the active cap under concurrency. With
\* max_tasks_per_board = 10, in every committed state reachable by
\* interleavings of add-task, uncomplete, restore and move requests no board
\* holds more than 10 active tasks.
C11_ActiveCapUnderConcurrency ==
    MAX_TASKS_PER_BOARD = 10 =>
       \A b \in boards : Cardinality(ActiveTasks(tasks, b.id)) <= 10

\* C12, as claimed: concurrent archiving never evicts the same row twice. No
\* two archived_tasks rows carry the same original_task_id, and a committed
\* archive run created as many archive rows as it removed task rows.
C12_NoRowEvictedTwice ==
    /\ \A a1, a2 \in archived_tasks :
          a1.original_task_id = a2.original_task_id => a1 = a2
    /\ (last.op = "bulk_complete" /\ last.outcome = "committed") =>
          Cardinality(archived_tasks \ last.pre_archived)
            = Cardinality({t.id : t \in last.pre_tasks} \ {t.id : t \in tasks})

\* C13, as claimed: archiving never removes an active task under concurrent
\* mutation. A row that was active, or on another board, when the archive
\* run reached its delete (an uncomplete or a move of it was committed after
\* the run selected it) is still there after the run, and the run left no
\* archive row for it.
C13_ArchiveSparesActiveTasks ==
    (last.op = "bulk_complete" /\ last.outcome = "committed") =>
       \A t \in last.call_tasks :
          (~t.is_completed \/ t.board_id # last.board_id) =>
             /\ t \in tasks
             /\ \A a \in archived_tasks \ last.pre_archived :
                   a.original_task_id # t.id

\* --------------------------------------- worker threads: create / delete board

\* what no board request of a worker thread writes
BoardWorkerFrame ==
    << config, archived_tasks, task_seq, archive_seq, used_task_ids, evicted,
       now, conn, pc >>

\* create_board._create: count_user_boards, on a connection of its own, and
\* the check of the cap
CreateCheck(s) ==
    /\ sessions[s].pc = "idle"
    /\ LET current == count_user_boards(boards, SessionUser)
       IN IF current >= BOARD_CAP
          THEN Finish(s, [BoardCall("create_board", SessionUser, "")
                             EXCEPT !.err = "board_limit",
                                    !.outcome = "rolled_back"])
          ELSE Continue(s, [NoSession EXCEPT !.pc = "create_insert",
                                             !.op = "create_board"])
    /\ UNCHANGED << BoardWorkerFrame, boards, tasks, board_seq >>

\* create_board._create: Database.create_board with a fresh uuid4, on a
\* second connection
CreateInsert(s, header) ==
    /\ sessions[s].pc = "create_insert"
    /\ boards' = boards \cup
          { [id |-> BoardPool[board_seq + 1], user_id |-> SessionUser,
             header |-> header] }
    /\ board_seq' = board_seq + 1
    /\ Finish(s, [BoardCall("create_board", SessionUser, BoardPool[board_seq + 1])
                     EXCEPT !.ret = 1, !.outcome = "committed"])
    /\ UNCHANGED << BoardWorkerFrame, tasks >>

\* delete_board._delete, up to the check of the board count
DeleteCheck(s, board_id) ==
    /\ sessions[s].pc = "idle"
    /\ LET call == BoardCall("delete_board", SessionUser, board_id)
       IN IF OwnedBoard(boards, board_id, SessionUser) = {}
          THEN Finish(s, [call EXCEPT !.err = "not_found",
                                      !.outcome = "rolled_back"])
          ELSE IF count_user_boards(boards, SessionUser) <= 1
          THEN Finish(s, [call EXCEPT !.err = "last_board",
                                      !.outcome = "rolled_back"])
          ELSE Continue(s, [NoSession EXCEPT !.pc = "delete_commit",
                                             !.op = "delete_board",
                                             !.board_id = board_id])
    /\ UNCHANGED << BoardWorkerFrame, boards, tasks, board_seq >>

\* delete_board._delete: the DELETE ... WHERE id AND user_id (the board's
\* tasks go with it) and the commit
DeleteCommit(s) ==
    /\ sessions[s].pc = "delete_commit"
    /\ LET gone == OwnedBoard(boards, sessions[s].board_id, SessionUser)
       IN /\ boards' = boards \ gone
          /\ tasks' = {t \in tasks : \A b \in gone : t.board_id # b.id}
          /\ Finish(s, [BoardCall("delete_board", SessionUser, sessions[s].board_id)
                           EXCEPT !.ret = Cardinality(gone),
                                  !.outcome = "committed"])
    /\ UNCHANGED << BoardWorkerFrame, board_seq >>

NextBoardWorkers ==
    \/ \E s \in Sessions : CreateCheck(s) /\ Served
    \/ \E s \in Sessions : CreateInsert(s, "n1") /\ UNCHANGED requests
    \/ \E s \in Sessions, b \in BoardTargets : DeleteCheck(s, b) /\ Served
    \/ \E s \in Sessions : DeleteCommit(s) /\ UNCHANGED requests

SpecBoardWorkers == InitConcurrent /\ [][NextBoardWorkers]_vars

\* C21, as claimed: board count bounds under concurrency. Under every
\* interleaving of create_board requests and of delete_board requests of one
\* user, every committed state has between 1 and 4 boards of that user.
C21_BoardCountUnderConcurrency ==
    count_user_boards(boards, SessionUser) \in 1..4

\* C22: the completion-date invariant. In every state of the tasks table,
\* committed or of an open transaction, reached by add, complete,
\* bulk-complete, uncomplete, update, reorder, move and restore requests, a
\* task has a completed_on that is not NULL if and only if it is completed.
C22_CompletionDateInvariant ==
    /\ \A t \in tasks : (t.completed_on # NULL) <=> t.is_completed
    /\ conn.open => \A t \in conn.tasks : (t.completed_on # NULL) <=> t.is_completed

\* a request has put a completed task back: it is active without a date, next
\* to a completed task that has one
C22_Witness ==
    /\ last.op = "uncomplete_task"
    /\ last.ret = 1
    /\ pc = "done"
    /\ \E t \in tasks : t.id = last.task_id /\ ~t.is_completed /\ t.completed_on = NULL
    /\ \E t \in tasks : t.is_completed /\ t.completed_on # NULL

\* C23, as claimed: a blocked uncomplete changes nothing. When the board has
\* 10 active tasks, an uncomplete request on one of its completed tasks puts
\* no task back and leaves the stored tasks as they were: the task stays
\* completed and keeps its completion date.
C23_BlockedUncompleteChangesNothing ==
    ( /\ last.op \in {"uncomplete_task", "web_uncomplete"}
      /\ Cardinality(ActiveTasks(last.pre_tasks, last.board_id)) >= 10
      /\ OwnedBoard(boards, last.board_id, last.user_id) # {} )
    => /\ last.ret = 0
       /\ tasks = last.pre_tasks

\* C24, as claimed: deterministic selection. For any fixed database state,
\* states where completed tasks of the board share completion date and
\* creation time included, the set of tasks archive_overflow evicts is
\* uniquely determined: any two runs from the state that raise no error
\* evict the same tasks.
C24_DeterministicSelection ==
    pc = "idle" =>
       \A b \in BoardIds, u \in Users :
          \A o1, o2 \in ArchiveOverflowTasks(tasks, archived_tasks, boards,
                                             archive_seq, b, u, now) :
             (o1.err = "" /\ o2.err = "") =>
                {o1.rows[i].id : i \in 1..Len(o1.rows)}
                  = {o2.rows[i].id : i \in 1..Len(o2.rows)}

\* C25: restore requires a live owned board. Restoring an archive row whose
\* recorded board is gone or is not the acting user's, or an archive row that
\* is not the acting user's (or does not exist), fails and leaves tasks and
\* archived_tasks unchanged.
C25_RestoreRequiresOwnedBoard ==
    ( /\ last.op = "restore"
      /\ LET found == {a \in last.pre_archived : a.id = last.archived_task_id}
         IN \/ found = {}
            \/ \E a \in found :
                  \/ a.user_id # last.user_id
                  \/ OwnedBoard(boards, a.board_id, last.user_id) = {} )
    => /\ last.err # ""
       /\ tasks = last.pre_tasks
       /\ archived_tasks = last.pre_archived

\* the owner of an archive row asked for its restore after the row's board
\* was deleted
C25_Witness ==
    /\ last.op = "restore"
    /\ last.err = "no_board"
    /\ pc = "done"
    /\ \E a \in archived_tasks :
          /\ a.id = last.archived_task_id
          /\ a.user_id = last.user_id
          /\ \A b \in boards : b.id # a.board_id

\* C26: the archive history is independent of the board lifecycle. Renaming
\* or deleting a board leaves every archived_tasks row as it was (same rows,
\* same board_name_at_archive, same board_id); deleting a board removes
\* exactly that board's rows from tasks.
C26_ArchiveSurvivesBoardLifecycle ==
    /\ last.op \in {"rename_board", "delete_board"} =>
          archived_tasks = last.pre_archived
    /\ (last.op = "delete_board" /\ last.err = "") =>
          tasks = {t \in last.pre_tasks : t.board_id # last.board_id}

\* a board that had tasks and an archived task was deleted
C26_Witness ==
    /\ last.op = "delete_board"
    /\ last.err = ""
    /\ last.ret = 1
    /\ pc = "done"
    /\ \E a \in archived_tasks : a.board_id = last.board_id
    /\ \E t \in last.pre_tasks : t.board_id = last.board_id
    /\ \A b \in boards : b.id # last.board_id

\* a board with an archived task was renamed
C26_Renamed ==
    /\ last.op = "rename_board"
    /\ last.err = ""
    /\ pc = "done"
    /\ \E a \in archived_tasks : \E b \in boards :
          /\ a.board_id = last.board_id
          /\ b.id = a.board_id
          /\ b.header # a.board_name_at_archive

\* C27: archive rows come only from archiving and leave only through restore.
\* In every step, a row that appears in archived_tasks was inserted by the
\* archive engine for a completed task it moved out of tasks, and is no
\* rewrite of a row that was there; a row that disappears was removed by a
\* successful restore of exactly that row.
C27_ArchiveRowsLifecycle ==
    [][ /\ \A a \in archived_tasks' \ archived_tasks :
              /\ last'.op \in {"archive_overflow", "archive_to_fit", "bulk_complete"}
              /\ \A x \in archived_tasks : x.id # a.id
              /\ \E t \in last'.call_tasks :
                    /\ t.id = a.original_task_id
                    /\ t.board_id = a.board_id
                    /\ t.is_completed
              /\ \A t \in tasks' : t.id # a.original_task_id
        /\ \A a \in archived_tasks \ archived_tasks' :
              /\ last'.op = "restore"
              /\ last'.err = ""
              /\ last'.archived_task_id = a.id
              /\ \A x \in archived_tasks' : x.id # a.id ]_vars

\* one archive row was restored while another, made by an engine run, stays
C27_Witness ==
    /\ last.op = "restore"
    /\ last.err = ""
    /\ pc = "done"
    /\ \E a \in last.pre_archived : a.id = last.archived_task_id /\ a \notin archived_tasks
    /\ \E a \in archived_tasks : a \in last.pre_archived

\* C28: snapshot fidelity. Every archive row an engine run that raised no
\* error created carries the acting user's id, who owns the board, the
\* evicted task's id as original_task_id, the board id, the board's display
\* name as it is when the run archives, and the task's text, due date, notes
\* and completion date as they were in tasks; the task row is gone from
\* tasks in the same transaction.
C28_SnapshotFidelity ==
    ( /\ last.op \in {"archive_overflow", "archive_to_fit", "bulk_complete"}
      /\ last.err = "" )
    => \A a \in PostArchived \ last.call_archived :
          /\ a.user_id = last.user_id
          /\ a.board_id = last.board_id
          /\ \E b \in OwnedBoard(boards, a.board_id, a.user_id) :
                a.board_name_at_archive = b.header
          /\ \E t \in last.call_tasks :
                /\ t.id = a.original_task_id
                /\ t.board_id = a.board_id
                /\ a.task = t.task
                /\ a.due_date = t.due_date
                /\ a.notes = t.notes
                /\ a.completed_on = t.completed_on
          /\ \A t \in PostTasks : t.id # a.original_task_id

\* an engine run archived a task of a board that was renamed before
C28_Witness ==
    /\ last.op \in {"archive_overflow", "archive_to_fit", "bulk_complete"}
    /\ last.outcome = "committed"
    /\ \E a \in archived_tasks \ last.pre_archived :
          /\ a.board_name_at_archive = "n2"
          /\ a.task # ""

\* C29: archive reader ordering and clamping. list_archived returns rows of
\* the user's archive ordered by archived_on descending: with limit below 1
\* taken as 1 and offset below 0 taken as 0, the page holds the rows at
\* places offset + 1 .. offset + limit of that order, as many as there are;
\* an empty archive yields an empty page and no error.
C29_ReaderOrderingAndClamping ==
    last.op = "list_archived" =>
       LET R == { a \in archived_tasks : a.user_id = last.user_id }
           lim == IF last.limit < 1 THEN 1 ELSE last.limit
           off == IF last.offset < 0 THEN 0 ELSE last.offset
           page == last.matched
           k == Len(page)
       IN /\ last.err = ""
          /\ Len(last.listed) = k
          /\ (R = {} => last.listed = << >>)
          /\ k <= lim
          /\ k = Cardinality(R) - off \/ k = lim \/ (k = 0 /\ Cardinality(R) <= off)
          /\ \A i \in 1..k :
                /\ page[i] \in R
                /\ last.listed[i] = ListedRow(page[i])
                /\ Cardinality({r \in R : r.archived_on > page[i].archived_on})
                      <= off + i - 1
                /\ Cardinality({r \in R : r.archived_on >= page[i].archived_on})
                      >= off + i
          /\ \A i, j \in 1..k :
                i < j => /\ page[i] # page[j]
                         /\ page[i].archived_on >= page[j].archived_on

\* a request with limit 0 and a negative offset got the newest of two rows
\* archived at different times
C29_Witness ==
    /\ last.op = "list_archived"
    /\ last.limit < 1
    /\ last.offset < 0
    /\ pc = "done"
    /\ Len(last.matched) = 1
    /\ \E a \in archived_tasks :
          /\ a.user_id = last.user_id
          /\ a.archived_on < last.matched[1].archived_on

\* a request with offset 1 got the older of two rows
C29_SecondPlace ==
    /\ last.op = "list_archived"
    /\ last.offset = 1
    /\ pc = "done"
    /\ Len(last.matched) = 1
    /\ \E a \in archived_tasks :
          /\ a.user_id = last.user_id
          /\ a.archived_on > last.matched[1].archived_on

\* a request on an empty archive
C29_EmptyArchive ==
    /\ last.op = "list_archived"
    /\ pc = "done"
    /\ archived_tasks = {}
    /\ last.listed = << >>

\* C30: idempotence of archive_overflow. Right after an archive_overflow call
\* that returned (whether or not it brought the board down to the ceiling),
\* a second call for the same board and user, in the same transaction or
\* after the commit, can only return 0 and change nothing.
C30_ArchiveOverflowIdempotent ==
    ( /\ last.op = "archive_overflow"
      /\ last.err = ""
      /\ last.outcome \in {"open", "committed"} )
    => LET aseq == IF pc = "returned" THEN conn.archive_seq ELSE archive_seq
       IN ArchiveOverflowTasks(PostTasks, PostArchived, boards, aseq,
                               last.board_id, last.user_id, now)
            = { Untouched(PostTasks, PostArchived, aseq) }

\* a first call archived the only completed row of a board that is still
\* over the ceiling
C30_Witness ==
    /\ last.op = "archive_overflow"
    /\ last.err = ""
    /\ last.outcome = "committed"
    /\ last.ret >= 1
    /\ Cardinality(BoardTasks(tasks, last.board_id)) > MAX_TASKS_PER_BOARD

\* a first call brought a board that holds another completed row down to the
\* ceiling
C30_ReachedCeiling ==
    /\ last.op = "archive_overflow"
    /\ last.err = ""
    /\ last.outcome = "committed"
    /\ last.ret >= 1
    /\ Cardinality(BoardTasks(tasks, last.board_id)) = MAX_TASKS_PER_BOARD
    /\ CompletedTasks(tasks, last.board_id) # {}

\* what one engine call can return and leave in the tables when it runs to
\* its end on tables T, A: the results of its body on a cursor
EngineResults(op, T, A, aseq, board_id, user_id, additional) ==
    LET outcomes ==
          IF op = "archive_overflow"
          THEN ArchiveOverflowTasks(T, A, boards, aseq, board_id, user_id, now)
          ELSE ArchiveToFit(T, A, boards, aseq, board_id, user_id, additional, now)
    IN { [tasks |-> o.tasks, archived_tasks |-> o.archived_tasks, ret |-> o.ret] :
           o \in {x \in outcomes : x.err = ""} }

\* the engine on its own connection can return r.ret and leave tables r
OwnGives(op, board_id, user_id, additional, r) ==
    /\ IF op = "archive_overflow" THEN ArchiveOverflowOwn(board_id, user_id)
       ELSE ArchiveToFitOwn(board_id, user_id, additional)
    /\ UNCHANGED requests
    /\ last'.err = ""
    /\ last'.outcome = "committed"
    /\ last'.ret = r.ret
    /\ tasks' = r.tasks
    /\ archived_tasks' = r.archived_tasks

\* the engine on the caller's connection can return r.ret and leave tables r
\* in the caller's transaction
ConnGives(op, board_id, user_id, additional, r) ==
    /\ IF op = "archive_overflow" THEN ArchiveOverflowConn(board_id, user_id)
       ELSE ArchiveToFitConn(board_id, user_id, additional)
    /\ UNCHANGED requests
    /\ pc' = "returned"
    /\ last'.ret = r.ret
    /\ conn'.tasks = r.tasks
    /\ conn'.archived_tasks = r.archived_tasks

\* C31: the two transaction modes of the engine agree. From every state,
\* archive_overflow / archive_to_fit on the engine's own connection and the
\* same call on a caller's connection that the caller then commits can
\* produce the same return values with the same final committed tables: every
\* result of the call's body is reachable in both modes, and a committed call
\* of either mode leaves one of these results.
C31_TransactionModesAgree ==
    /\ pc = "idle" =>
         \A op \in {"archive_overflow", "archive_to_fit"}, b \in BoardIds,
            u \in Users, k \in -1..MaxAdditional :
            \A r \in EngineResults(op, tasks, archived_tasks, archive_seq, b, u, k) :
               /\ ENABLED OwnGives(op, b, u, k, r)
               /\ ENABLED ConnGives(op, b, u, k, r)
    /\ ( /\ pc = "done"
         /\ last.op \in {"archive_overflow", "archive_to_fit"}
         /\ last.err = ""
         /\ last.outcome = "committed" )
       => [tasks |-> tasks, archived_tasks |-> archived_tasks, ret |-> last.ret]
            \in EngineResults(last.op, last.pre_tasks, last.pre_archived,
                              archive_seq - last.ret, last.board_id,
                              last.user_id, last.additional)

\* archive_to_fit moved a row inside the caller's transaction and the caller
\* committed
C31_Witness ==
    /\ pc = "done"
    /\ last.op = "archive_to_fit"
    /\ last.with_conn
    /\ last.outcome = "committed"
    /\ last.ret >= 1
    /\ tasks # last.pre_tasks

\* archive_overflow moved a row on the engine's own connection
C31_OwnConnection ==
    /\ pc = "done"
    /\ last.op = "archive_overflow"
    /\ ~last.with_conn
    /\ last.outcome = "committed"
    /\ last.ret >= 1
    /\ tasks # last.pre_tasks

\* the step of one move_task_between_boards request
MoveServed == pc = "idle" /\ pc' = "done" /\ last'.op = "move"

\* the row of task id in table T
TaskRow(T, id) == CHOOSE t \in T : t.id = id

\* C32: move_task_between_boards changes only the moved task's board_id and
\* position. The task's text, due date, notes, is_completed and completed_on
\* are preserved, every other task, every board and every archive row is
\* unchanged, the new position is strictly greater than the position of every
\* task already in the same section of the target board, and a move that is
\* refused or whose target is the task's current board changes nothing.
C32_MoveFrame ==
    [][ MoveServed =>
          LET id == last'.task_id
              target == last'.board_id
          IN /\ archived_tasks' = archived_tasks
             /\ boards' = boards
             /\ {t \in tasks : t.id # id} = {t \in tasks' : t.id # id}
             /\ {t.id : t \in tasks'} = {t.id : t \in tasks}
             /\ last'.ret # 1 => tasks' = tasks
             /\ (\E t \in tasks : t.id = id /\ t.board_id = target)
                   => tasks' = tasks /\ last'.ret # 1
             /\ last'.ret = 1 =>
                   LET old == TaskRow(tasks, id)
                       new == TaskRow(tasks', id)
                   IN /\ new = [old EXCEPT !.board_id = new.board_id,
                                           !.position = new.position]
                      /\ new.board_id = target
                      /\ old.board_id # target
                      /\ \A t \in BoardTasks(tasks, target) :
                            t.is_completed = old.is_completed
                               => new.position > t.position ]_vars

\* a task was moved onto a board that already held a task in its section
C32_Witness ==
    /\ pc = "done"
    /\ last.op = "move"
    /\ last.ret = 1
    /\ \E t \in tasks, x \in tasks :
          /\ t.id = last.task_id
          /\ x.id # t.id
          /\ x.board_id = t.board_id
          /\ x.is_completed = t.is_completed
          /\ t.position > x.position

\* a move whose target is the task's current board
C32_SameBoard ==
    /\ pc = "done"
    /\ last.op = "move"
    /\ last.outcome = "unchanged"
    /\ \E t \in tasks : t.id = last.task_id /\ t.board_id = last.board_id

\* the ids of a request list that are reported as skipped when `targets` are
\* the ids the request can complete: every id outside targets, and every
\* occurrence of a target after its first
RECURSIVE SkippedOf(_, _)
SkippedOf(ids, targets) ==
    IF ids = << >> THEN << >>
    ELSE IF Head(ids) \in targets
         THEN SkippedOf(Tail(ids), targets \ {Head(ids)})
         ELSE << Head(ids) >> \o SkippedOf(Tail(ids), targets)

\* the last request was a bulk_complete_tasks on a board its user owns
BulkServed == last.op = "bulk_complete" /\ last.err # "not_found"

\* the listed ids that were active tasks of the request's board before it
BulkTargets ==
    { t.id : t \in { x \in ActiveTasks(last.pre_tasks, last.board_id) :
                       \E i \in 1..Len(last.ids) : last.ids[i] = x.id } }

\* C33: bulk_complete_tasks accounting. Exactly the listed ids that are
\* active tasks of the given board (owned by the user) become completed, with
\* today's date; every other listed id (unknown, already completed, on
\* another board, or a repeat of an id listed before) is reported in skipped,
\* in request order, and causes no change; completed + number of skipped =
\* number requested; archiving runs once, on the tables that hold all the
\* completions, and its result is what the request leaves.
C33_BulkAccounting ==
    BulkServed =>
       /\ last.call_tasks =
             { IF t.id \in BulkTargets
               THEN [t EXCEPT !.is_completed = TRUE,
                              !.completed_on = DateOf(now)]
               ELSE t : t \in last.pre_tasks }
       /\ last.call_archived = last.pre_archived
       /\ last.completed = Cardinality(BulkTargets)
       /\ last.skipped = SkippedOf(last.ids, BulkTargets)
       /\ last.completed + Len(last.skipped) = Len(last.ids)
       /\ pc \in {"returned", "raised"} =>
             \E o \in ArchiveOverflowTasks(last.call_tasks, last.call_archived,
                                           boards, archive_seq, last.board_id,
                                           last.user_id, now) :
                /\ conn.tasks = o.tasks
                /\ conn.archived_tasks = o.archived_tasks
                /\ last.ret = o.ret
       /\ (pc = "done" /\ last.outcome = "committed") =>
             /\ Cardinality(archived_tasks \ last.pre_archived) = last.ret
             /\ Cardinality(last.call_tasks \ tasks) = last.ret
             /\ tasks \subseteq last.call_tasks

\* a request that lists one active task twice: completed once, skipped once
C33_Witness ==
    /\ BulkServed
    /\ pc = "done"
    /\ last.outcome = "committed"
    /\ Len(last.ids) = 2
    /\ last.ids[1] = last.ids[2]
    /\ last.completed = 1
    /\ last.skipped = << last.ids[1] >>

\* a listed id that is already completed
C33_AlreadyCompleted ==
    /\ BulkServed
    /\ \E i \in 1..Len(last.ids) :
          \E t \in CompletedTasks(last.pre_tasks, last.board_id) :
             t.id = last.ids[i]

\* a listed id that is an active task of another board
C33_OtherBoard ==
    /\ BulkServed
    /\ \E i \in 1..Len(last.ids) :
          \E t \in last.pre_tasks :
             t.id = last.ids[i] /\ t.board_id # last.board_id /\ ~t.is_completed

\* a listed id that no task carries, next to one that is completed and archived
C33_UnknownAndArchived ==
    /\ BulkServed
    /\ pc = "done"
    /\ last.outcome = "committed"
    /\ last.completed = 1
    /\ last.ret = 1
    /\ \E i \in 1..Len(last.ids) :
          \A t \in last.pre_tasks : t.id # last.ids[i]

\* ------------------------------------------------ reordering one section

\* the request lists of reorder_tasks for a section S: its orderings, an
\* unknown id, and the lists that name one task of S twice
ReorderRequests(S) ==
    LET ids == {t.id : t \in S}
        n == Cardinality(ids)
    IN Orderings(S) \cup
       { f \in [1..(n + 1) -> ids] : {f[i] : i \in 1..(n + 1)} = ids }

NextReorder ==
    \/ \E u \in Users, p \in Payloads : AddTask("b1", u, p) /\ Served
    \/ \E b \in BoardTargets, u \in Users, i \in 0..MaxIdx :
          CompleteTask(b, u, i) /\ Served
    \/ \E t \in TaskTargets, b \in BoardTargets, u \in Users :
          MoveTask(t, b, u) /\ Served
    \/ \E b \in BoardTargets, u \in Users, c \in BOOLEAN :
          \E ids \in ReorderRequests({ t \in BoardTasks(tasks, b) :
                                         t.is_completed = c }) :
             ReorderTasks(b, u, ids, c) /\ Served
    \/ Return /\ UNCHANGED requests

SpecReorder == InitUsers /\ [][NextReorder]_vars

\* the step of one reorder_tasks request
ReorderServed == pc = "idle" /\ pc' = "done" /\ last'.op = "reorder"

\* the section a reorder request names, as the request finds it
ReorderSection ==
    { t \in BoardTasks(tasks, last'.board_id) :
        t.is_completed = last'.is_completed }

\* what a reorder step does with request list ids: rejected with no change
\* unless ids name exactly the tasks of the section on a board of the user;
\* on success only position values change, the section sorts by position in
\* the order of the list, and everything outside the section is unchanged
ReorderPermutes(ids) ==
    LET requested == {ids[i] : i \in 1..Len(ids)}
        section == ReorderSection
        exact == /\ requested = {t.id : t \in section}
                 /\ OwnedBoard(boards, last'.board_id, last'.user_id) # {}
    IN /\ archived_tasks' = archived_tasks
       /\ boards' = boards
       /\ ~exact => tasks' = tasks /\ last'.err # ""
       /\ last'.err # "" => tasks' = tasks
       /\ last'.err = "" =>
             /\ exact
             /\ tasks \ section \subseteq tasks'
             /\ \A t \in section :
                   \E p \in 1..Len(ids) : [t EXCEPT !.position = p] \in tasks'
             /\ Cardinality(tasks') = Cardinality(tasks)
             /\ \A i, j \in 1..Len(ids) :
                   (i < j /\ ids[i] # ids[j]) =>
                      TaskRow(tasks', ids[i]).position
                         < TaskRow(tasks', ids[j]).position

\* C34: reorder_tasks is a pure permutation of one section. It is rejected
\* with no change unless the given ids are exactly the set of tasks currently
\* in that section of the board; on success it changes only position values,
\* the tasks of the section then sort by position in the requested order, and
\* the other section, other boards and the archive are unchanged.
C34_ReorderIsPermutation ==
    [][ ReorderServed => ReorderPermutes(last'.ids) ]_vars

\* the same for the requests that list no id twice
C34_DistinctIdsPermute ==
    [][ ( /\ ReorderServed
          /\ \A i, j \in 1..Len(last'.ids) :
                i # j => last'.ids[i] # last'.ids[j] )
        => ReorderPermutes(last'.ids) ]_vars

\* a section of two tasks was put in the reverse order
C34_Reversed ==
    /\ pc = "done"
    /\ last.op = "reorder"
    /\ last.err = ""
    /\ Len(last.ids) = 2
    /\ last.ids[1] > last.ids[2]
    /\ TaskRow(tasks, last.ids[1]).position < TaskRow(tasks, last.ids[2]).position

\* a list that names the first of two tasks again at its end was accepted
C34_RepeatedId ==
    /\ pc = "done"
    /\ last.op = "reorder"
    /\ last.err = ""
    /\ Len(last.ids) = 3
    /\ last.ids[1] = last.ids[3]
    /\ last.ids[1] # last.ids[2]

\* -------------------------------------- mcp_server: complete_task by id

\* complete_task._complete, up to the call that completes by index:
\* get_user_boards reads the board's active list (ORDER BY position,
\* created_at) on a connection of its own, the loop finds the index of task_id
CompleteResolve(s, board_id, task_id) ==
    /\ sessions[s].pc = "idle"
    /\ LET call == TaskCall("complete_by_id", SessionUser, board_id, task_id)
           active == ActiveTasks(tasks, board_id)
           indexes ==
               { i \in 0..(Cardinality(active) - 1) :
                   \E t \in RowsAtOffset(active,
                                         [x, y \in active |-> ByPosition(x, y)], i) :
                      t.id = task_id }
       IN IF OwnedBoard(boards, board_id, SessionUser) = {}
          THEN Finish(s, [call EXCEPT !.err = "no_board",
                                      !.outcome = "rolled_back"])
          ELSE IF indexes = {}
          THEN Finish(s, [call EXCEPT !.err = "not_found",
                                      !.outcome = "rolled_back"])
          ELSE \E index \in indexes :
                  Continue(s, [NoSession EXCEPT !.pc = "complete_by_index",
                                                !.op = "complete_task",
                                                !.board_id = board_id,
                                                !.task_id = task_id,
                                                !.task_idx = index])
    /\ UNCHANGED << WorkerFrame, tasks, archived_tasks, task_seq, archive_seq,
                    used_task_ids >>

\* the completion by index the handler then calls, as Database.complete_task
\* does it: a new connection, SELECT ... LIMIT 1 OFFSET index, UPDATE, commit
CompleteByIndex(s) ==
    /\ sessions[s].pc = "complete_by_index"
    /\ LET board_id == sessions[s].board_id
           call == TaskCall("complete_by_id", SessionUser, board_id,
                            sessions[s].task_id)
           section == ActiveTasks(TasksOfUser(tasks, boards, SessionUser), board_id)
           found == RowsAtOffset(section, [x, t \in section |-> ByPosition(x, t)],
                                 sessions[s].task_idx)
       IN IF found = {}
          THEN /\ Finish(s, [call EXCEPT !.outcome = "rolled_back"])
               /\ UNCHANGED tasks
          ELSE \E task \in found :
                  /\ tasks' = { IF t.id = task.id
                                THEN [t EXCEPT !.is_completed = TRUE,
                                               !.completed_on = DateOf(now)]
                                ELSE t : t \in tasks }
                  /\ Finish(s, [call EXCEPT !.ret = task.id,
                                            !.outcome = "committed"])
    /\ UNCHANGED << WorkerFrame, archived_tasks, task_seq, archive_seq,
                    used_task_ids >>

\* complete_task requests of two worker threads next to the user's other
\* requests on board b1, each of these served in one transaction
NextCompleteById ==
    \/ \E p \in Payloads : AddTask("b1", SessionUser, p) /\ Served
    \/ \E s \in Sessions, t \in TaskTargets : CompleteResolve(s, "b1", t) /\ Served
    \/ \E s \in Sessions : CompleteByIndex(s) /\ UNCHANGED requests
    \/ \E t \in TaskTargets : DeleteTask(t, SessionUser) /\ Served
    \/ \E i \in 0..MaxIdx : CompleteTask("b1", SessionUser, i) /\ Served
    \/ \E t \in TaskTargets, b \in BoardTargets :
          MoveTask(t, b, SessionUser) /\ Served
    \/ \E ids \in Orderings(ActiveTasks(tasks, "b1")) :
          ReorderTasks("b1", SessionUser, ids, FALSE) /\ Served
    \/ Return /\ UNCHANGED requests

SpecCompleteById == InitUsers /\ [][NextCompleteById]_vars

C35_CompletedRequested ==
    /\ last.op = "complete_by_id"
    /\ last.outcome = "committed"
    /\ last.ret = last.task_id
    /\ \E t \in tasks : t.id = last.task_id /\ t.is_completed

\* ------------------------------------------ app.py: the file-backed store

\* load_boards: the content of the user's boards file, read as a whole
load_boards(user_id) ==
    [boards |-> {b \in boards : b.user_id = user_id},
     tasks |-> TasksOfUser(tasks, boards, user_id)]

\* save_boards: the user's boards file is overwritten with data
save_boards(user_id, data) ==
    /\ boards' = {b \in boards : b.user_id # user_id} \cup data.boards
    /\ tasks' = (tasks \ TasksOfUser(tasks, boards, user_id)) \cup data.tasks

\* what no request of the web app writes
WebFrame ==
    << config, archived_tasks, archive_seq, evicted, conn, pc, board_seq, now >>

\* the first statement of a route: data = load_boards(user_id)
WebLoad(s, route, board_id, task_idx) ==
    /\ sessions[s].pc = "idle"
    /\ Continue(s, [NoSession EXCEPT !.pc = route, !.op = route,
                                     !.board_id = board_id,
                                     !.task_idx = task_idx,
                                     !.data = load_boards(SessionUser)])
    /\ UNCHANGED << WebFrame, boards, tasks, task_seq, used_task_ids >>

\* add_task of the web app after the load: the append to the active list of
\* the loaded data, and save_boards
WebAddTask(s, p) ==
    /\ sessions[s].pc = "web_add_task"
    /\ task_seq < seed + MaxNewTasks
    /\ LET data == sessions[s].data
           board_id == sessions[s].board_id
           active == ActiveTasks(data.tasks, board_id)
           call == TaskCall("web_add_task", SessionUser, board_id, 0)
           new_task == [id |-> task_seq + 1, board_id |-> board_id,
                        task |-> p.task, due_date |-> p.due_date,
                        notes |-> p.notes, is_completed |-> FALSE,
                        completed_on |-> NULL,
                        position |-> MaxPosition(active) + 1, created_at |-> 0]
       IN IF /\ \E b \in data.boards : b.id = board_id
             /\ Cardinality(active) < ACTIVE_CAP
          THEN /\ save_boards(SessionUser,
                              [data EXCEPT !.tasks = @ \cup {new_task}])
               /\ task_seq' = task_seq + 1
               /\ used_task_ids' = used_task_ids \cup {task_seq + 1}
               /\ Finish(s, [call EXCEPT !.task_id = task_seq + 1, !.ret = 1,
                                         !.outcome = "committed"])
          ELSE /\ Finish(s, [call EXCEPT !.outcome = "rolled_back"])
               /\ UNCHANGED << boards, tasks, task_seq, used_task_ids >>
    /\ UNCHANGED WebFrame

\* complete of the web app after the load: the task at task_idx of the
\* active list moves to the front of the completed list, and save_boards
WebComplete(s) ==
    /\ sessions[s].pc = "web_complete"
    /\ LET data == sessions[s].data
           board_id == sessions[s].board_id
           active_tasks == ActiveTasks(data.tasks, board_id)
           completed_tasks == CompletedTasks(data.tasks, board_id)
           found == RowsAtOffset(active_tasks,
                                 [x, t \in active_tasks |-> ByPosition(x, t)],
                                 sessions[s].task_idx)
           front == IF completed_tasks = {} THEN 1
                    ELSE (CHOOSE t \in completed_tasks :
                            \A x \in completed_tasks : t.position <= x.position
                         ).position - 1
           call == TaskCall("web_complete", SessionUser, board_id, 0)
       IN IF (\E b \in data.boards : b.id = board_id) /\ found # {}
          THEN \E task \in found :
                  /\ save_boards(SessionUser,
                        [data EXCEPT !.tasks =
                            { IF t.id = task.id
                              THEN [t EXCEPT !.is_completed = TRUE,
                                             !.completed_on = DateOf(now),
                                             !.position = front]
                              ELSE t : t \in @ }])
                  /\ Finish(s, [call EXCEPT !.task_id = task.id, !.ret = 1,
                                            !.outcome = "committed"])
          ELSE /\ Finish(s, [call EXCEPT !.outcome = "rolled_back"])
               /\ UNCHANGED << boards, tasks >>
    /\ UNCHANGED << WebFrame, task_seq, used_task_ids >>

\* requests of one user served by two threads of the web app
NextWeb ==
    \/ \E s \in Sessions, b \in BoardTargets :
          WebLoad(s, "web_add_task", b, 0) /\ Served
    \/ \E s \in Sessions, b \in BoardTargets, i \in 0..MaxIdx :
          WebLoad(s, "web_complete", b, i) /\ Served
    \/ \E s \in Sessions, p \in Payloads : WebAddTask(s, p) /\ UNCHANGED requests
    \/ \E s \in Sessions : WebComplete(s) /\ UNCHANGED requests

SpecWeb == InitUsers /\ [][NextWeb]_vars

\* C36: no lost updates in the file-backed app. When two requests of the
\* same user run concurrently, each doing load_boards, a mutation and
\* save_boards, the stored file contains the effects of both once they are
\* done: every task an add_task request appended is in the file.
C36_NoLostUpdates ==
    (\A s \in Sessions : sessions[s].pc = "idle")
    => \A id \in used_task_ids : \E t \in tasks : t.id = id

\* the same, step by step: no save_boards drops a task of the file or turns
\* a completed task back into an active one
C36_SavesKeepEarlierEffects ==
    [][ \A t \in tasks :
           \E x \in tasks' : x.id = t.id /\ (t.is_completed => x.is_completed) ]_vars

\* two add_task requests were served and the file holds both tasks
C36_BothAdded ==
    /\ \A s \in Sessions : sessions[s].pc = "idle"
    /\ task_seq = seed + 2
    /\ \A id \in used_task_ids : \E t \in tasks : t.id = id

====
